---- MODULE Spec2Model ----
(***************************************************************************)
(* A model of the order-lifecycle engine of snapback:                      *)
(*   - backend/order_scheduler.py  OrderScheduler (the tick loop)          *)
(*   - backend/xt_trader.py        XTTraderClient (connection, orders)     *)
(*   - backend/utils.py            market hours, pending-orders file       *)
(* Times are seconds since 00:00 of day 1; money is in cents.              *)
(***************************************************************************)
EXTENDS Integers, Sequences, FiniteSets, TLC

(***************************************************************************)
(* Bounds of the model.                                                    *)
(***************************************************************************)
\* calendar dates the clock runs through
MaxDay == 2
\* calls of start() that create a loop thread
MaxStarts == 2
\* spacing, in seconds, of the clock instants placed around the windows
Grain == 10

(***************************************************************************)
(* Program constants.                                                      *)
(***************************************************************************)
\* order_scheduler.py:33  check_interval: int = 60
DefaultCheckInterval == 60
\* order_scheduler.py:97  close_time - timedelta(minutes=3)
CheckLeadMinutes == 3
\* order_scheduler.py:103 (now - last).total_seconds() >= 60
DebounceSeconds == 60
\* order_scheduler.py:123 open_time + timedelta(minutes=3)
ReloadFromMinutes == 3
\* order_scheduler.py:124 open_time + timedelta(minutes=10)
ReloadToMinutes == 10
\* utils.py:402 date.replace(hour=15, minute=0, ...)
CloseHour == 15
\* utils.py:418 date.replace(hour=9, minute=30, ...)
OpenHour == 9
OpenMinute == 30

SecondsPerMinute == 6 * 10
SecondsPerHour == 60 * SecondsPerMinute
SecondsPerDay == 24 * SecondsPerHour

\* Python's None, for the fields that hold a time
None == 0 - 1

(***************************************************************************)
(* datetime arithmetic.                                                    *)
(***************************************************************************)
Days == 1..MaxDay

\* now.date()
Date(t) == (t \div SecondsPerDay) + 1

Midnight(t) == (Date(t) - 1) * SecondsPerDay

\* utils.get_market_close_time: the same date at 15:00:00
get_market_close_time(t) == Midnight(t) + CloseHour * SecondsPerHour

\* utils.get_market_open_time: the same date at 09:30:00
get_market_open_time(t) ==
    Midnight(t) + OpenHour * SecondsPerHour + OpenMinute * SecondsPerMinute

\* order_scheduler.py:96-100  check_time <= now <= close_time
InCheckWindow(t) ==
    LET close_time == get_market_close_time(t)
        check_time == close_time - CheckLeadMinutes * SecondsPerMinute
    IN  check_time <= t /\ t <= close_time

\* order_scheduler.py:122-127  reload_time <= now <= reload_end_time
InReloadWindow(t) ==
    LET open_time == get_market_open_time(t)
        reload_time == open_time + ReloadFromMinutes * SecondsPerMinute
        reload_end_time == open_time + ReloadToMinutes * SecondsPerMinute
    IN  reload_time <= t /\ t <= reload_end_time

\* order_scheduler.py:102-103  no check yet, or at least 60 s since the last
DebouncePassed(last, t) == last = None \/ t - last >= DebounceSeconds

\* order_scheduler.py:129-131  no reload yet, or the last one on another date
ReloadDue(last, t) == last = None \/ Date(last) # Date(t)

(***************************************************************************)
(* The instants the wall clock takes: a few around each window of each     *)
(* day, two of them closer together than the debounce.                     *)
(***************************************************************************)
TimesOfDay ==
    LET open == OpenHour * SecondsPerHour + OpenMinute * SecondsPerMinute
        close == CloseHour * SecondsPerHour
        rfrom == open + ReloadFromMinutes * SecondsPerMinute
        rto == open + ReloadToMinutes * SecondsPerMinute
        cfrom == close - CheckLeadMinutes * SecondsPerMinute
    IN  { rfrom - Grain, rfrom, rfrom + Grain, rto, rto + Grain,
          cfrom, cfrom + Grain, cfrom + DebounceSeconds, close,
          close + Grain }

Instants == { (d - 1) * SecondsPerDay + s : d \in Days, s \in TimesOfDay }

FirstInstant == CHOOSE t \in Instants : \A u \in Instants : t <= u

\* the last modelled instant: the clock stands still there
Horizon == CHOOSE t \in Instants : \A u \in Instants : u <= t

(***************************************************************************)
(* The executor as the scheduler sees it.                                  *)
(***************************************************************************)
\* the methods class XTTraderClient defines (xt_trader.py:114-852)
XTTraderClientMethods ==
    { "__init__", "connect", "check_connection", "reconnect", "place_order",
      "_calculate_volume", "batch_place_orders", "cancel_order",
      "place_order_async", "query_asset", "query_order", "query_orders",
      "query_trades", "query_positions", "query_position", "run_forever",
      "disconnect" }

\* self.trader.<name>: attribute lookup on an XTTraderClient instance
TraderLookup(name) ==
    IF name \in XTTraderClientMethods THEN "method" ELSE "AttributeError"

\* the exception classes that occur; all derive from Exception
Exceptions == { "AttributeError", "TypeError", "ValueError", "KeyError" }

\* handlers that would catch ValueError only
CaughtValueErrorOnly(exc) == exc = "ValueError"

\* `except Exception as e` (order_scheduler.py:84, 111, 140)
Caught(exc) == exc \in Exceptions

\* the orders that may rest unfilled at the brokerage endpoint
OrderBook ==
    { [stock_code |-> "sh.600000", price |-> 1050, amount |-> 1000000],
      [stock_code |-> "sz.000001", price |-> 1236, amount |-> 1400000] }

VARIABLES
    now,                \* the wall clock (datetime.now())
    tradingDay,         \* the calendar: day -> is it a trading day
    check_interval,     \* OrderScheduler.check_interval
    running,            \* OrderScheduler.running
    nthreads,           \* loop threads created so far by start()
    pc,                 \* per loop thread: where it is in _run
    wake,               \* per loop thread: when its time.sleep() ends
    raised,             \* per loop thread: its latest tick raised
    last_check_time,    \* OrderScheduler._last_check_time
    last_reload_time,   \* OrderScheduler._last_reload_time
    pending_file,       \* pending_orders.json
    unfilled,           \* orders unfilled at the endpoint
    resubmitted,        \* orders the scheduler passed to batch_place_orders
    captureTick,        \* the tick of the latest capture call, or None
    reloadTick,         \* the tick of the latest reload call, or None
    owed,               \* unfilled at the last close of a captured day
    built               \* when OrderScheduler.__init__ ran last

schedVars ==
    << now, tradingDay, check_interval, running, nthreads, pc, wake, raised,
       last_check_time, last_reload_time, pending_file, unfilled, resubmitted,
       captureTick, reloadTick, owed, built >>

\* the scheduler's own fields and the file; what observes the trader calls
schedState == << last_check_time, last_reload_time, pending_file, resubmitted >>
callObs == << captureTick, reloadTick >>

VARIABLES
    is_connected,       \* XTTraderClient.is_connected
    is_mock_mode,       \* XTTraderClient.is_mock_mode
    b_orders,           \* batch_place_orders: the `orders` argument
    b_idx,              \* batch_place_orders: the loop index (from 1)
    b_results,          \* batch_place_orders: the `results` list
    b_state,            \* batch_place_orders: "loop", "returned", "raised"
    b_exc,              \* the exception that left batch_place_orders
    placeCalls,         \* indices of the orders passed to place_order
    epLog               \* <<index, primitive>> of each endpoint call made

batchVars ==
    << is_connected, is_mock_mode, b_orders, b_idx, b_results, b_state,
       b_exc, placeCalls, epLog >>

VARIABLES
    reconnect_lock,     \* XTTraderClient._reconnect_lock: its holder, or 0
    c_pc,               \* where each calling thread is in its executor call
    c_op,               \* the executor method each calling thread called last
    c_ret,              \* what that call returned (None while in progress)
    attempted,          \* whether that call ran a connection attempt
    peers               \* the threads whose reconnect() overlapped that call

connVars == << reconnect_lock, c_pc, c_op, c_ret, attempted, peers >>

VARIABLES
    p_op,               \* the executor method the caller called last
    p_price,            \* place_order: the `price` argument
    p_volume,           \* place_order: the `volume` argument
    p_state,            \* place_order: "idle", "called" or "returned"
    p_result,           \* place_order: the dict returned
    p_log,              \* place_order: the endpoint primitives it called
    session_lost        \* the endpoint has pushed on_disconnected since the
                        \* session was last set up

placeVars ==
    << p_op, p_price, p_volume, p_state, p_result, p_log, session_lost >>

VARIABLES
    v_amount,           \* _calculate_volume: the `amount` argument (cents)
    v_price,            \* _calculate_volume: the `price` argument (cents)
    v_state,            \* _calculate_volume: "idle", "called" or "returned"
    v_volume            \* _calculate_volume: the value returned

volumeVars == << v_amount, v_price, v_state, v_volume >>

VARIABLES
    orders_file,        \* OrderStorage: the records in orders.json, in order
    l_clock,            \* the reading datetime.now() gives, in microseconds
    l_pc,               \* where each thread is in its OrderStorage call
    l_op,               \* the OrderStorage method each thread called last
    l_id,               \* save_order: order_id; the others: their argument
    l_data,             \* save_order: the `order_data` argument
    l_orders,           \* the local list `orders`, while the call runs
    l_ok,               \* the value the thread's delete_order returned
    l_found,            \* the record the thread's get_order_by_id returned
    l_lost,             \* records the latest write dropped unasked
    l_calls,            \* how many OrderStorage calls have begun
    last_saved_id,      \* the order_id the latest finished save_order returned
    l_limit,            \* get_recent_orders: the `limit` argument
    l_recent            \* the list the thread's get_recent_orders returned

recentVars == << l_limit, l_recent >>

ledgerVars ==
    << orders_file, l_clock, l_pc, l_op, l_id, l_data, l_orders, l_ok,
       l_found, l_lost, l_calls, last_saved_id, recentVars >>

VARIABLES
    h_op,               \* the pending-orders call made last
    h_orders,           \* the orders that call was given or returned
    h_ok,               \* the flag that call returned
    h_exc,              \* the exception that left that call, or "none"
    h_last              \* the orders of the latest save that returned True

helperVars == << h_op, h_orders, h_ok, h_exc, h_last >>

VARIABLES
    g_total,            \* generate_pyramid_orders: total_amount, in mills
    g_high,             \* limit_info['highest_price'], in cents
    g_low,              \* limit_info['lowest_price'], in cents
    g_found,            \* whether find_latest_limit_up finds a limit-up day
    g_tie,              \* which way round() takes a value halfway
    g_state,            \* "idle", "called", "returned" or "raised"
    g_via,              \* "direct", or "route" for /api/analyze
    g_plan,             \* result['orders'] of the plan returned
    g_status,           \* the HTTP status of the route's response, or 0
    g_levels            \* result['fibonacci_levels'], in 0.00001

planVars ==
    << g_total, g_high, g_low, g_found, g_tie, g_state, g_via, g_plan,
       g_status, g_levels >>

VARIABLES
    k_rows,             \* find_latest_limit_up: the rows the data source gave
    k_state,            \* "idle", "called" or "returned"
    k_result            \* what find_latest_limit_up returned

spikeVars == << k_rows, k_state, k_result >>

\* the state of what is modelled after the order store
laterVars == << ledgerVars, helperVars, planVars, spikeVars >>

\* the state of everything but the order store
nonLedgerVars ==
    << schedVars, batchVars, connVars, placeVars, volumeVars, helperVars,
       planVars, spikeVars >>

otherVars == << placeVars, volumeVars, laterVars >>

execVars == << batchVars, connVars, otherVars >>

vars == << schedVars, batchVars, connVars, otherVars >>

Threads == 1..MaxStarts

\* pending_orders.json: whether it is there, the orders its text holds,
\* and whether that text is a whole JSON document
AbsentFile == [exists |-> FALSE, orders |-> << >>, whole |-> TRUE]

\* a calendar on which every day would be a trading day
every_day_trading(t) == TRUE

\* utils.is_trading_day(now): the calendar's answer for now's date
is_trading_day(t) == tradingDay[Date(t)]

\* the most threads that call into the executor at once
MaxCallers == 2

Callers == 1..MaxCallers

\* no thread is inside connect(), check_connection() or reconnect()
ConnIdle ==
    /\ reconnect_lock = 0
    /\ c_pc = [c \in Callers |-> "idle"]
    /\ c_op = [c \in Callers |-> "none"]
    /\ c_ret = [c \in Callers |-> None]
    /\ attempted = [c \in Callers |-> FALSE]
    /\ peers = [c \in Callers |-> {}]

\* no result yet
NoResult ==
    [success |-> FALSE, order_id |-> "None",
     message |-> [text |-> "none", arg |-> 0], attempts |-> 0]

\* no place_order call was made
PlaceIdle ==
    /\ p_op = "none"
    /\ p_price = 0
    /\ p_volume = 0
    /\ p_state = "idle"
    /\ p_result = NoResult
    /\ p_log = << >>
    /\ session_lost = FALSE

\* no _calculate_volume call was made
VolumeIdle ==
    /\ v_amount = 0
    /\ v_price = 0
    /\ v_state = "idle"
    /\ v_volume = 0

\* the most threads that call into the order store at once
MaxWriters == 2

Writers == 1..MaxWriters

\* the empty string, and the answer of a search that found nothing
NoId == << >>
NotFound == [order_id |-> NoId, data |-> "none"]

\* OrderStorage as constructed (storage.py:13-30): orders.json holds []
LedgerInit ==
    /\ orders_file = << >>
    /\ l_clock = 0
    /\ l_pc = [w \in Writers |-> "idle"]
    /\ l_op = [w \in Writers |-> "none"]
    /\ l_id = [w \in Writers |-> NoId]
    /\ l_data = [w \in Writers |-> "none"]
    /\ l_orders = [w \in Writers |-> << >>]
    /\ l_ok = [w \in Writers |-> FALSE]
    /\ l_found = [w \in Writers |-> NotFound]
    /\ l_lost = {}
    /\ l_calls = 0
    /\ last_saved_id = NoId
    /\ l_limit = [w \in Writers |-> 0]
    /\ l_recent = [w \in Writers |-> << >>]

\* no call on the pending-orders file was made
HelperIdle ==
    /\ h_op = "none"
    /\ h_orders = << >>
    /\ h_ok = FALSE
    /\ h_exc = "none"
    /\ h_last = [any |-> FALSE, orders |-> << >>]

\* the ratios of the retracement levels, in thousandths
Ratios == { 382, 500, 618, 700, 786 }

\* no levels were computed
NoLevels == [ratio \in Ratios |-> 0]

\* no plan was asked for
PlanIdle ==
    /\ g_total = 0
    /\ g_high = 0
    /\ g_low = 0
    /\ g_found = FALSE
    /\ g_tie = "down"
    /\ g_state = "idle"
    /\ g_via = "direct"
    /\ g_plan = << >>
    /\ g_status = 0
    /\ g_levels = NoLevels

\* find_latest_limit_up returns None when it finds no limit-up day
NoSpike == [found |-> FALSE, nan |-> FALSE, highest_price |-> 0,
            lowest_price |-> 0]

\* find_latest_limit_up was not called
SpikeIdle ==
    /\ k_rows = << >>
    /\ k_state = "idle"
    /\ k_result = NoSpike

LaterIdle == LedgerInit /\ HelperIdle /\ PlanIdle /\ SpikeIdle

\* nothing beside the scheduler, the batch and the connection is in use
OtherIdle == PlaceIdle /\ VolumeIdle /\ LaterIdle

\* no batch_place_orders call in progress, the executor as constructed
\* without xtquant (xt_trader.py:131-132)
BatchIdle ==
    /\ is_connected = FALSE
    /\ is_mock_mode = TRUE
    /\ b_orders = << >>
    /\ b_idx = 1
    /\ b_results = << >>
    /\ b_state = "returned"
    /\ b_exc = "none"
    /\ placeCalls = {}
    /\ epLog = << >>

(***************************************************************************)
(* OrderScheduler.__init__ (order_scheduler.py:33-47) and the environment  *)
(* at start-up.                                                            *)
(***************************************************************************)
SchedulerInit(t) ==
    /\ now = t
    /\ tradingDay \in [Days -> BOOLEAN]
    /\ check_interval \in {Grain, DefaultCheckInterval}
    /\ running = FALSE
    /\ nthreads = 0
    /\ pc = [th \in Threads |-> "unborn"]
    /\ wake = [th \in Threads |-> None]
    /\ raised = [th \in Threads |-> FALSE]
    /\ last_check_time = None
    /\ last_reload_time = None
    /\ pending_file = AbsentFile
    /\ unfilled = OrderBook
    /\ resubmitted = {}
    /\ captureTick = None
    /\ reloadTick = None
    /\ owed = {}
    /\ built = t

\* the scheduler as constructed at instant t beside an executor not in use
InitAt(t) == SchedulerInit(t) /\ BatchIdle /\ ConnIdle /\ OtherIdle

Init == InitAt(FirstInstant)

(***************************************************************************)
(* OrderScheduler.start / stop (order_scheduler.py:49-65).                 *)
(***************************************************************************)
start ==
    /\ ~running
    /\ nthreads < MaxStarts
    /\ running' = TRUE
    /\ nthreads' = nthreads + 1
    /\ pc' = [pc EXCEPT ![nthreads + 1] = "head"]
    /\ UNCHANGED << execVars, now, tradingDay, check_interval, wake, raised, unfilled,
                    owed, schedState, callObs,
                    built >>

\* running = False; the join (timeout 5 s) changes no state
stop ==
    /\ running' = FALSE
    /\ UNCHANGED << execVars, now, tradingDay, check_interval, nthreads, pc, wake,
                    raised, unfilled, owed, schedState, callObs,
                    built >>

(***************************************************************************)
(* OrderScheduler._run (order_scheduler.py:67-86), one loop thread.        *)
(***************************************************************************)
\* a loop that would never test the flag: `while True`
LoopForever == TRUE

\* `while self.running`
LoopCondition == running

\* _check_pending_orders(now) (lines 88-112): "none" when no capture is
\* due, else the outcome of self.trader.check_and_save_pending_orders
CheckOutcome(t) ==
    IF InCheckWindow(t) /\ DebouncePassed(last_check_time, t)
    THEN TraderLookup("check_and_save_pending_orders")
    ELSE "none"

\* _reload_pending_orders(now) (lines 114-141): "none" when no reload is
\* due, else the outcome of self.trader.reload_pending_orders
ReloadOutcome(t) ==
    IF InReloadWindow(t) /\ ReloadDue(last_reload_time, t)
    THEN TraderLookup("reload_pending_orders")
    ELSE "none"

\* time.sleep(self.check_interval) begun at t: the instant it lasts to, or
\* None once the clock has reached that instant (the clock stands still at
\* Horizon, where the sleep counts as over)
SleepUntil(t) == IF t = Horizon THEN None ELSE t + check_interval

\* one pass of the loop body, lines 69-86: the flag is tested, the clock
\* read, the two steps run on a trading day, and the thread sleeps.  An
\* exception of a step is caught by the step's own handler (lines 111,
\* 140) and by _run's (line 84); one that nothing catches ends the thread.
Tick(th) ==
    /\ pc[th] = "head"
    /\ IF ~LoopCondition
       THEN /\ pc' = [pc EXCEPT ![th] = "exited"]
            /\ UNCHANGED << wake, raised, last_check_time, last_reload_time,
                            callObs >>
       ELSE LET t == now
                trading == is_trading_day(t)
                chk == IF trading THEN CheckOutcome(t) ELSE "none"
                rld == IF trading THEN ReloadOutcome(t) ELSE "none"
                excs == {chk, rld} \ {"none", "method"}
            IN  /\ captureTick' = IF chk = "none" THEN captureTick ELSE t
                /\ reloadTick' = IF rld = "none" THEN reloadTick ELSE t
                \* line 108: only after the call returned
                /\ last_check_time' =
                      IF chk = "method" THEN t ELSE last_check_time
                \* line 136: only after the call returned
                /\ last_reload_time' =
                      IF rld = "method" THEN t ELSE last_reload_time
                /\ raised' = [raised EXCEPT ![th] = excs # {}]
                /\ IF \A e \in excs : Caught(e)
                   THEN /\ pc' = [pc EXCEPT ![th] = "sleep"]
                        /\ wake' = [wake EXCEPT ![th] = SleepUntil(t)]
                   ELSE /\ pc' = [pc EXCEPT ![th] = "crashed"]
                        /\ UNCHANGED wake
    /\ UNCHANGED << execVars, now, tradingDay, check_interval, running, nthreads,
                    pending_file, resubmitted, unfilled, owed, built >>

\* time.sleep(self.check_interval) returns (lines 82, 86)
Wake(th) ==
    /\ pc[th] = "sleep"
    /\ wake[th] = None
    /\ pc' = [pc EXCEPT ![th] = "head"]
    /\ UNCHANGED << execVars, now, tradingDay, check_interval, running, nthreads, wake,
                    raised, unfilled, owed, schedState, callObs,
                    built >>

(***************************************************************************)
(* The environment: the clock and the market.                              *)
(***************************************************************************)
\* 15:00:00 of day d
CloseOf(d) == (d - 1) * SecondsPerDay + CloseHour * SecondsPerHour

\* the orders owed a resubmission once the clock has moved from now to t:
\* those unfilled at the close of the last trading day that ended on the
\* way, if a tick of that day made the capture call
OwedAfter(t) ==
    LET ended == { d \in Days : tradingDay[d] /\ now < CloseOf(d)
                                              /\ CloseOf(d) <= t }
        last == CHOOSE d \in ended : \A e \in ended : e <= d
    IN  IF ended = {} THEN owed
        ELSE IF captureTick # None /\ Date(captureTick) = last
        THEN unfilled ELSE {}

\* the clock moves on and the sleeps it outlasts are over
Advance ==
    /\ \E t \in Instants :
          /\ t > now
          /\ now' = t
          /\ wake' = [th \in Threads |->
                        IF wake[th] # None /\ (wake[th] <= t \/ t = Horizon)
                        THEN None ELSE wake[th]]
          /\ owed' = OwedAfter(t)
    /\ UNCHANGED << execVars, tradingDay, check_interval, running, nthreads, pc,
                    raised, unfilled, schedState, callObs,
                    built >>

\* an order resting at the endpoint fills during a trading day's session
MarketFill ==
    /\ is_trading_day(now)
    /\ get_market_open_time(now) <= now
    /\ now < get_market_close_time(now)
    /\ \E o \in unfilled : unfilled' = unfilled \ {o}
    /\ UNCHANGED << execVars, now, tradingDay, check_interval, running, nthreads, pc,
                    wake, raised, owed, schedState, callObs,
                    built >>

\* the scheduler, once started, is kept running
NextRunning ==
    \/ start
    \/ \E th \in Threads : Tick(th)
    \/ \E th \in Threads : Wake(th)
    \/ Advance
    \/ MarketFill

\* the scheduler over the modelled days, started and never stopped
Spec == Init /\ [][NextRunning]_vars

\* the instants of the last modelled day after its reload window
Afternoon ==
    { t \in Instants :
        /\ Date(t) = MaxDay
        /\ t > get_market_open_time(t) + ReloadToMinutes * SecondsPerMinute }

\* the afternoon of the last modelled day, the scheduler not yet started
InitAfternoon ==
    /\ InitAt(CHOOSE t \in Afternoon : \A u \in Afternoon : t <= u)
    /\ \A d \in Days \ {MaxDay} : ~tradingDay[d]

NextLoop ==
    \/ start
    \/ stop
    \/ \E th \in Threads : Tick(th)
    \/ \E th \in Threads : Wake(th)
    \/ Advance

\* the life cycle of the loop threads under start() and stop()
LoopSpec == InitAfternoon /\ [][NextLoop]_vars

\* a runnable thread gets to run, and the clock does not stop before Horizon
LoopFairness ==
    /\ \A th \in Threads : WF_vars(Tick(th)) /\ WF_vars(Wake(th))
    /\ WF_vars(Advance)

FairLoopSpec == LoopSpec /\ LoopFairness

(***************************************************************************)
(* Properties of the scheduler.                                            *)
(***************************************************************************)
\* a step in which a tick made the capture call
CaptureCalled == captureTick' # captureTick

\* a step in which a tick made the reload call
ReloadCalled == reloadTick' # reloadTick

\* C1: of two ticks of one day that both fall inside the unfilled-check
\* window and are less than 60 seconds apart, only one triggers the
\* capture: a tick that makes the capture call comes at least 60 seconds
\* after the tick that made it before.
C1_DebounceOrig ==
    [][ (CaptureCalled /\ captureTick # None
            /\ Date(captureTick') = Date(captureTick))
        => captureTick' - captureTick >= DebounceSeconds ]_vars

\* C2: the scheduled resubmission is triggered at most once per calendar
\* date: a tick that makes the reload call is of another date than the
\* tick that made it before.
C2_ReloadOncePerDayOrig ==
    [][ (ReloadCalled /\ reloadTick # None)
        => Date(reloadTick') # Date(reloadTick) ]_vars

\* C3: once a tick has attempted the scheduled reload, the last-reload
\* date is the date of that tick, whatever the outcome of the attempt.
C3_ReloadDateSetOrig ==
    reloadTick # None =>
        /\ last_reload_time # None
        /\ Date(last_reload_time) = Date(reloadTick)

\* C4: a tick that triggers the capture leaves the pending-orders file
\* holding exactly the orders unfilled at the executor at that moment and
\* the last-check timestamp equal to the tick's time.
C4_CapturePersistsOrig ==
    [][ CaptureCalled =>
            /\ pending_file'.exists /\ pending_file'.whole
            /\ { pending_file'.orders[i] : i \in 1..Len(pending_file'.orders) }
                  = unfilled
            /\ last_check_time' = captureTick' ]_vars

\* C5: every order unfilled at the close of a trading day on which a tick
\* landed in the check window has been resubmitted through
\* batch_place_orders once a tick of the next trading day has landed in the
\* reload window.
C5_ResubmittedOrig ==
    (/\ reloadTick # None
     /\ Date(reloadTick) = Date(now)
     /\ now < get_market_close_time(now))
    => owed \subseteq resubmitted

\* C6: a tick that raises never ends the loop: no exception leaves _run,
\* a tick begun while running ends in the sleep, and a thread sleeping
\* after a tick that raised comes back to the head of the loop (where it
\* ticks again) unless a stop was requested.
C6_BadTickSurvives ==
    /\ [](\A th \in Threads : pc[th] # "crashed")
    /\ [][ \A th \in Threads :
              (pc[th] = "head" /\ pc'[th] # "head" /\ running)
              => pc'[th] = "sleep" ]_vars
    /\ \A th \in Threads :
          (pc[th] = "sleep" /\ raised[th])
              ~> (pc[th] = "head" \/ ~running)

\* a thread whose latest tick raised is back at the head of the loop with
\* the scheduler still running
C6_Witness ==
    \E th \in Threads : pc[th] = "head" /\ raised[th] /\ running

\* C7: once stop() has been called and no start() follows, every loop
\* thread exits, and a thread that finds the flag cleared at the head of
\* the loop starts no tick.
C7_CooperativeStop ==
    /\ [][ \A th \in Threads :
              (pc[th] = "head" /\ pc'[th] # "head" /\ ~running)
              => (pc'[th] = "exited" /\ callObs' = callObs) ]_vars
    /\ (<>[](~running))
          => <>[](\A th \in Threads : pc[th] \in {"unborn", "exited"})

\* a loop thread that slept through a stop() has exited
C7_Witness ==
    /\ ~running
    /\ \E th \in Threads : pc[th] = "exited" /\ raised[th]

\* loop thread th is alive: it is at the head of the loop or asleep in it
Alive(th) == pc[th] \in { "head", "sleep" }

\* C37: at most one scheduler loop is alive at any time: after any
\* sequence of start() and stop() calls, also a start() right after a
\* stop() whose join timed out while the old loop was asleep, no two
\* tick loops run at once on the same scheduler.
C37_OneLoopAliveOrig ==
    Cardinality({ th \in Threads : Alive(th) }) <= 1

(***************************************************************************)
(* XTTraderClient.batch_place_orders (xt_trader.py:364-444) and what it    *)
(* calls.  Money is kept in cents, so 1050 is the price 10.50.             *)
(***************************************************************************)
\* LOT_SIZE (xt_trader.py:22)
LOT_SIZE == 100
\* MIN_LOT_SIZE (xt_trader.py:23)
MIN_LOT_SIZE == 100

\* the longest `orders` list handed to batch_place_orders
MaxBatch == 2

\* a value found under a key of an order dict: kind is "missing" (no such
\* key), "null" (None), "str" (the string s) or "num" (the number n)
Field(kind, str, n) == [kind |-> kind, s |-> str, n |-> n]

StockInputs ==
    { Field("str", "sh.600000", 0), Field("str", "  ", 0), Field("null", "", 0) }

PriceInputs ==
    { Field("num", "", 1050), Field("missing", "", 0), Field("null", "", 0),
      Field("str", "abc", 0) }

AmountInputs ==
    { Field("num", "", 1000000), Field("num", "", 50000), Field("missing", "", 0) }

OrderInputs ==
    [stock_code : StockInputs, price : PriceInputs, amount : AmountInputs]

BatchInputs == UNION { [1..n -> OrderInputs] : n \in 0..MaxBatch }

\* dict.get(key, default) (xt_trader.py:383-385)
Get(f, default) == IF f.kind = "missing" THEN default ELSE f

\* str.strip() as called on the stock code (xt_trader.py:383); None has no
\* such method
strip(f) ==
    IF f.kind = "str"
    THEN [exc |-> "none", s |-> IF f.s = "  " THEN "" ELSE f.s]
    ELSE [exc |-> "AttributeError", s |-> ""]

\* float() as called on price and amount (xt_trader.py:384-385)
float(f) ==
    CASE f.kind = "num" -> [exc |-> "none", n |-> f.n]
      [] f.kind = "str" -> [exc |-> "ValueError", n |-> 0]
      [] OTHER -> [exc |-> "TypeError", n |-> 0]

\* a volume computation that rounds up to the next lot
calculate_volume_round_up(amount, price) ==
    IF price <= 0 THEN 0
    ELSE (((amount \div price) + LOT_SIZE - 1) \div LOT_SIZE) * LOT_SIZE

\* amount / price (xt_trader.py:361) is a division of binary64 floats: the
\* operands are the doubles nearest to the decimal amounts, and for these
\* pairs (amount, price), in cents, the quotient that IEEE 754 rounds to lies
\* just below the exact integer quotient (700 and 7 are 7.0 / 0.07 =
\* 99.99999999999999).  The set lists every such pair among the amounts
\* 100 * k * price - 1, 100 * k * price, 100 * k * price + 1 for k up to 3
\* and the prices 0.01 to 0.08 and 5.19; on the other pairs handed to
\* calculate_volume the float quotient truncates to the exact one.
FloatQuotientShort ==
    { << 201, 1 >>, << 700, 7 >>, << 1400, 7 >>, << 2100, 7 >>,
      << 51900, 519 >>, << 103800, 519 >> }

\* int(amount / price) (xt_trader.py:361): the float quotient truncated
\* towards zero
int_of_quotient(amount, price) ==
    LET exact == IF amount >= 0 THEN amount \div price
                 ELSE 0 - ((0 - amount) \div price)
    IN  IF << amount, price >> \in FloatQuotientShort THEN exact - 1
        ELSE exact

\* XTTraderClient._calculate_volume (xt_trader.py:347-362)
calculate_volume(amount, price) ==
    IF price <= 0 THEN 0
    ELSE (int_of_quotient(amount, price) \div LOT_SIZE) * LOT_SIZE

\* what the endpoint does when asked to connect, and to take an order
ConnectOutcomes == { "ok", "start_raises", "connect_err", "subscribe_err" }
OrderOutcomes == { "ok", "raises" }

\* a connect that would go to the endpoint without testing is_mock_mode
connect_live(mock, conn, ep) ==
    CASE ep = "start_raises" ->
            [ret |-> FALSE, conn |-> FALSE, calls |-> << "start" >>,
             attempts |-> 1]
      [] ep = "connect_err" ->
            [ret |-> FALSE, conn |-> conn, calls |-> << "start", "connect" >>,
             attempts |-> 1]
      [] ep = "subscribe_err" ->
            [ret |-> FALSE, conn |-> FALSE,
             calls |-> << "start", "connect", "subscribe" >>, attempts |-> 1]
      [] OTHER ->
            [ret |-> TRUE, conn |-> TRUE,
             calls |-> << "start", "connect", "subscribe" >>, attempts |-> 1]

\* XTTraderClient.connect (xt_trader.py:154-195) run to completion: what it
\* returns, is_connected afterwards and the endpoint primitives it called
connect(mock, conn, ep) ==
    CASE mock -> [ret |-> TRUE, conn |-> TRUE, calls |-> << >>, attempts |-> 1]
      [] ~mock /\ ep = "start_raises" ->
            [ret |-> FALSE, conn |-> FALSE, calls |-> << "start" >>,
             attempts |-> 1]
      [] ~mock /\ ep = "connect_err" ->
            [ret |-> FALSE, conn |-> conn, calls |-> << "start", "connect" >>,
             attempts |-> 1]
      [] ~mock /\ ep = "subscribe_err" ->
            [ret |-> FALSE, conn |-> FALSE,
             calls |-> << "start", "connect", "subscribe" >>, attempts |-> 1]
      [] OTHER ->
            [ret |-> TRUE, conn |-> TRUE,
             calls |-> << "start", "connect", "subscribe" >>, attempts |-> 1]

\* XTTraderClient.check_connection (xt_trader.py:197-222) run to completion
check_connection(mock, conn, ep) ==
    IF mock THEN [ret |-> conn, conn |-> conn, calls |-> << >>, attempts |-> 0]
    ELSE IF ~conn THEN connect(mock, conn, ep)
    ELSE [ret |-> TRUE, conn |-> conn, calls |-> << >>, attempts |-> 0]

Message(text, arg) == [text |-> text, arg |-> arg]

\* a place_order that would submit once more after the endpoint raised
place_order_retrying(price, volume, mock, conn, epc, epo) ==
    LET cc == check_connection(mock, conn, epc)
        Failure(msg, calls) ==
            [success |-> FALSE, order_id |-> "None", message |-> msg,
             conn |-> cc.conn, calls |-> calls, attempts |-> cc.attempts]
    IN  IF ~cc.ret THEN Failure(Message("not_connected", 0), cc.calls)
        ELSE IF price <= 0 THEN Failure(Message("price_not_positive", price), cc.calls)
        ELSE IF volume < MIN_LOT_SIZE \/ volume % LOT_SIZE # 0
        THEN Failure(Message("volume_not_lots", volume), cc.calls)
        ELSE IF mock
        THEN [success |-> TRUE, order_id |-> "MOCK", conn |-> cc.conn,
              message |-> Message("mock_submitted", 0), calls |-> cc.calls,
              attempts |-> cc.attempts]
        ELSE IF epo = "raises"
        THEN Failure(Message("order_failed", 0),
                     cc.calls \o << "order_stock", "order_stock" >>)
        ELSE [success |-> TRUE, order_id |-> "XT", conn |-> cc.conn,
              message |-> Message("submitted", 0),
              calls |-> cc.calls \o << "order_stock" >>,
              attempts |-> cc.attempts]

\* XTTraderClient.place_order (xt_trader.py:242-345) with the default
\* direction "buy"
place_order(price, volume, mock, conn, epc, epo) ==
    LET cc == check_connection(mock, conn, epc)
        Failure(msg, calls) ==
            [success |-> FALSE, order_id |-> "None", message |-> msg,
             conn |-> cc.conn, calls |-> calls, attempts |-> cc.attempts]
    IN  IF ~cc.ret THEN Failure(Message("not_connected", 0), cc.calls)
        ELSE IF price <= 0 THEN Failure(Message("price_not_positive", price), cc.calls)
        ELSE IF volume < MIN_LOT_SIZE \/ volume % LOT_SIZE # 0
        THEN Failure(Message("volume_not_lots", volume), cc.calls)
        ELSE IF mock
        THEN [success |-> TRUE, order_id |-> "MOCK", conn |-> cc.conn,
              message |-> Message("mock_submitted", 0), calls |-> cc.calls,
              attempts |-> cc.attempts]
        ELSE IF epo = "raises"
        THEN Failure(Message("order_failed", 0), cc.calls \o << "order_stock" >>)
        ELSE [success |-> TRUE, order_id |-> "XT", conn |-> cc.conn,
              message |-> Message("submitted", 0),
              calls |-> cc.calls \o << "order_stock" >>,
              attempts |-> cc.attempts]
\* the exceptions the handler at xt_trader.py:433 names
BatchCaught(exc) == exc \in { "ValueError", "KeyError" }

\* one pass of the loop body (xt_trader.py:381-439) over order o: the
\* exception raised inside the try (or "none"), the result appended when
\* none was raised, whether place_order was called, is_connected afterwards
\* and the endpoint primitives called
ProcessOrder(o, mock, conn, epc, epo) ==
    LET sc == strip(Get(o.stock_code, Field("str", "", 0)))
        pr == float(Get(o.price, Field("num", "", 0)))
        am == float(Get(o.amount, Field("num", "", 0)))
        exc == IF sc.exc # "none" THEN sc.exc
               ELSE IF pr.exc # "none" THEN pr.exc
               ELSE am.exc
        volume == calculate_volume(am.n, pr.n)
        po == place_order(pr.n, volume, mock, conn, epc, epo)
        Rejected(msg) ==
            [exc |-> "none", placed |-> FALSE, conn |-> conn, calls |-> << >>,
             result |-> [order |-> o, success |-> FALSE, message |-> msg]]
    IN  IF exc # "none"
        THEN [exc |-> exc, placed |-> FALSE, conn |-> conn, calls |-> << >>,
              result |-> [order |-> o, success |-> FALSE,
                          message |-> Message("bad_parameters", 0)]]
        ELSE IF sc.s = "" THEN Rejected(Message("empty_stock_code", 0))
        ELSE IF pr.n <= 0 THEN Rejected(Message("price_not_positive", pr.n))
        ELSE IF am.n <= 0 THEN Rejected(Message("amount_not_positive", am.n))
        ELSE IF volume < MIN_LOT_SIZE
        THEN Rejected(Message("below_one_lot", pr.n * MIN_LOT_SIZE))
        ELSE [exc |-> "none", placed |-> TRUE, conn |-> po.conn,
              calls |-> po.calls,
              result |-> [order |-> o, success |-> po.success,
                          order_id |-> po.order_id, volume |-> volume,
                          message |-> po.message]]

\* one iteration of the loop of batch_place_orders (xt_trader.py:381-439)
batch_place_orders_iteration ==
    /\ b_state = "loop"
    /\ b_idx <= Len(b_orders)
    /\ \E epc \in ConnectOutcomes, epo \in OrderOutcomes :
          LET r == ProcessOrder(b_orders[b_idx], is_mock_mode, is_connected,
                                epc, epo)
          IN  /\ is_connected' = r.conn
              /\ placeCalls' = IF r.placed THEN placeCalls \cup {b_idx}
                                ELSE placeCalls
              /\ epLog' = epLog \o [k \in 1..Len(r.calls) |->
                                        << b_idx, r.calls[k] >>]
              /\ IF r.exc = "none" \/ BatchCaught(r.exc)
                 THEN /\ b_results' = Append(b_results, r.result)
                      /\ b_idx' = b_idx + 1
                      /\ UNCHANGED << b_state, b_exc >>
                 ELSE /\ b_state' = "raised"
                      /\ b_exc' = r.exc
                      /\ UNCHANGED << b_results, b_idx >>
    /\ UNCHANGED << schedVars, otherVars, connVars, is_mock_mode, b_orders >>

\* batch_place_orders returns: at once on an empty list (xt_trader.py:374-376),
\* otherwise after the last iteration (xt_trader.py:442-444)
batch_place_orders_return ==
    /\ b_state = "loop"
    /\ b_idx > Len(b_orders)
    /\ b_state' = "returned"
    /\ UNCHANGED << schedVars, otherVars, connVars, is_connected, is_mock_mode, b_orders, b_idx,
                    b_results, b_exc, placeCalls, epLog >>

\* a scheduler that was constructed and never started
SchedulerIdle ==
    /\ SchedulerInit(FirstInstant)
    /\ check_interval = DefaultCheckInterval
    /\ \A d \in Days : tradingDay[d]

\* batch_place_orders is called with some list of orders, on an executor in
\* either mode, connected or not
BatchInit ==
    /\ SchedulerIdle
    /\ ConnIdle
    /\ OtherIdle
    /\ is_connected \in BOOLEAN
    /\ is_mock_mode \in BOOLEAN
    /\ b_orders \in BatchInputs
    /\ b_idx = 1
    /\ b_results = << >>
    /\ b_state = "loop"
    /\ b_exc = "none"
    /\ placeCalls = {}
    /\ epLog = << >>

BatchNext ==
    \/ batch_place_orders_iteration
    \/ batch_place_orders_return

\* one call of batch_place_orders
BatchSpec == BatchInit /\ [][BatchNext]_vars

(***************************************************************************)
(* Properties of batch_place_orders.                                       *)
(***************************************************************************)
\* C9: batch_place_orders returns exactly one result per input order, in
\* input order, whatever fields are missing, null or non-numeric, and
\* never raises.
C9_OneResultPerOrderOrig ==
    /\ b_state # "raised"
    /\ b_state = "returned" =>
          /\ Len(b_results) = Len(b_orders)
          /\ \A i \in 1..Len(b_orders) : b_results[i].order = b_orders[i]

\* an order with a stock code and positive price and amount whose amount
\* buys less than one lot
SubLot(o) ==
    /\ o.stock_code.kind = "str" /\ o.stock_code.s \notin { "", "  " }
    /\ o.price.kind = "num" /\ o.price.n > 0
    /\ o.amount.kind = "num" /\ o.amount.n > 0
    /\ o.amount.n < 100 * o.price.n

\* C10: an order in a batch whose computed volume is below one lot gets a
\* failure result naming the minimum capital price*100, is never passed to
\* place_order or the endpoint, and does not stop the orders after it.
C10_SubLotRejected ==
    \A i \in 1..Len(b_orders) :
        SubLot(b_orders[i]) =>
            /\ i \notin placeCalls
            /\ \A k \in 1..Len(epLog) : epLog[k][1] # i
            /\ ~(b_state = "raised" /\ b_idx = i)
            /\ b_idx > i =>
                  /\ Len(b_results) >= i
                  /\ b_results[i] =
                        [order |-> b_orders[i], success |-> FALSE,
                         message |-> Message("below_one_lot",
                                             b_orders[i].price.n * 100)]

\* a batch returned in which a sub-lot order was followed by an order that
\* was placed successfully
C10_Witness ==
    /\ b_state = "returned"
    /\ \E i \in 1..(Len(b_orders) - 1) :
          /\ SubLot(b_orders[i])
          /\ b_results[i].message.text = "below_one_lot"
          /\ (i + 1) \in placeCalls
          /\ b_results[i + 1].success
\* the number of times order i of the batch was submitted to the endpoint
Submissions(i) ==
    Cardinality({ k \in 1..Len(epLog) : epLog[k] = << i, "order_stock" >> })

\* C15: one batch_place_orders call submits each input order to the
\* endpoint at most once (through one place_order call), also when the
\* endpoint raises; the failure is returned in the result and the order is
\* not submitted again.
C15_NoDoubleSubmission ==
    \A i \in 1..Len(b_orders) :
        /\ Submissions(i) <= 1
        /\ (i <= Len(b_results) /\ b_results[i].message.text = "order_failed")
              => (~b_results[i].success /\ Submissions(i) = 1)

\* a batch returned in which the endpoint raised on an order, which was
\* submitted once
C15_Witness ==
    /\ b_state = "returned"
    /\ \E i \in 1..Len(b_orders) :
          /\ i \in placeCalls
          /\ b_results[i].message.text = "order_failed"
          /\ Submissions(i) = 1

(***************************************************************************)
(* Threads calling XTTraderClient.reconnect, check_connection and          *)
(* disconnect at the same time (xt_trader.py:154-239, 835-852).  Each      *)
(* endpoint primitive is one step, so calls interleave as threads do.      *)
(***************************************************************************)
batchCallVars ==
    << b_orders, b_idx, b_results, b_state, b_exc, placeCalls, epLog >>

\* thread c is inside reconnect()
InReconnect(c) == c_op[c] = "reconnect" /\ c_pc[c] # "idle"

\* thread c enters method op: its record of the previous call is dropped
Enter(c, op, at) ==
    /\ c_pc[c] = "idle"
    /\ c_pc' = [c_pc EXCEPT ![c] = at]
    /\ c_op' = [c_op EXCEPT ![c] = op]
    /\ peers' = [d \in Callers |->
                    IF d = c
                    THEN IF op = "reconnect"
                         THEN { e \in Callers \ {c} : InReconnect(e) }
                         ELSE {}
                    ELSE IF op = "reconnect" /\ InReconnect(d)
                         THEN peers[d] \cup {c}
                         ELSE peers[d] \ {c}]

\* thread c leaves the step at which it is with the call's return value
Finish(c, ret) ==
    /\ c_ret' = [c_ret EXCEPT ![c] = ret]
    /\ c_pc' = [c_pc EXCEPT ![c] = "return"]

\* reconnect() is called and reaches `with self._reconnect_lock`
\* (xt_trader.py:224-231)
reconnect_call(c) ==
    /\ Enter(c, "reconnect", "wait")
    /\ c_ret' = [c_ret EXCEPT ![c] = None]
    /\ attempted' = [attempted EXCEPT ![c] = FALSE]
    /\ UNCHANGED << schedVars, otherVars, batchVars, reconnect_lock >>

\* the lock is taken once it is free (xt_trader.py:231)
reconnect_acquire(c) ==
    /\ c_pc[c] = "wait"
    /\ reconnect_lock = 0
    /\ reconnect_lock' = c
    /\ c_pc' = [c_pc EXCEPT ![c] = "locked"]
    /\ UNCHANGED << schedVars, otherVars, batchVars, c_op, c_ret, attempted, peers >>

\* the old connection is dropped and connect() is called
\* (xt_trader.py:232-239, disconnect at 835-852)
reconnect_disconnect(c) ==
    /\ c_pc[c] = "locked"
    /\ is_connected' = FALSE
    /\ attempted' = [attempted EXCEPT ![c] = TRUE]
    /\ c_pc' = [c_pc EXCEPT ![c] = "connect"]
    /\ UNCHANGED << schedVars, otherVars, batchCallVars, is_mock_mode, reconnect_lock,
                    c_op, c_ret, peers >>

\* connect() up to xttrader.start() (xt_trader.py:161-172, 192-195)
connect_start(c) ==
    /\ c_pc[c] = "connect"
    /\ IF is_mock_mode
       THEN is_connected' = TRUE /\ Finish(c, TRUE)
       ELSE \E o \in { "ok", "raises" } :
              IF o = "ok"
              THEN /\ c_pc' = [c_pc EXCEPT ![c] = "started"]
                   /\ UNCHANGED << is_connected, c_ret >>
              ELSE is_connected' = FALSE /\ Finish(c, FALSE)
    /\ UNCHANGED << schedVars, otherVars, batchCallVars, is_mock_mode, reconnect_lock,
                    c_op, attempted, peers >>

\* xttrader.connect() and the test of its result (xt_trader.py:175-178,
\* 192-195)
connect_connect(c) ==
    /\ c_pc[c] = "started"
    /\ \E o \in { "ok", "err", "raises" } :
          CASE o = "ok" -> /\ c_pc' = [c_pc EXCEPT ![c] = "subscribe"]
                           /\ UNCHANGED << is_connected, c_ret >>
            [] o = "err" -> /\ Finish(c, FALSE)
                            /\ UNCHANGED is_connected
            [] OTHER -> is_connected' = FALSE /\ Finish(c, FALSE)
    /\ UNCHANGED << schedVars, otherVars, batchCallVars, is_mock_mode, reconnect_lock,
                    c_op, attempted, peers >>

\* xttrader.subscribe() and the rest of connect() (xt_trader.py:181-195)
connect_subscribe(c) ==
    /\ c_pc[c] = "subscribe"
    /\ \E o \in { "ok", "err", "raises" } :
          IF o = "ok"
          THEN is_connected' = TRUE /\ Finish(c, TRUE)
          ELSE is_connected' = FALSE /\ Finish(c, FALSE)
    /\ UNCHANGED << schedVars, otherVars, batchCallVars, is_mock_mode, reconnect_lock,
                    c_op, attempted, peers >>

\* the call returns; reconnect() leaves its `with` block (xt_trader.py:231)
call_return(c) ==
    /\ c_pc[c] = "return"
    /\ c_pc' = [c_pc EXCEPT ![c] = "idle"]
    /\ reconnect_lock' = IF c_op[c] = "reconnect" THEN 0 ELSE reconnect_lock
    /\ UNCHANGED << schedVars, otherVars, batchVars, c_op, c_ret, attempted, peers >>

\* check_connection() up to the call of connect(), or to its return
\* (xt_trader.py:197-222)
check_connection_call(c) ==
    /\ IF ~is_mock_mode /\ ~is_connected
       THEN /\ Enter(c, "check_connection", "connect")
            /\ c_ret' = [c_ret EXCEPT ![c] = None]
            /\ attempted' = [attempted EXCEPT ![c] = TRUE]
       ELSE /\ Enter(c, "check_connection", "return")
            /\ c_ret' = [c_ret EXCEPT ![c] = is_connected]
            /\ attempted' = [attempted EXCEPT ![c] = FALSE]
    /\ UNCHANGED << schedVars, otherVars, batchVars, reconnect_lock >>

\* connect() is called directly (xt_trader.py:154; app.py:105)
connect_call(c) ==
    /\ Enter(c, "connect", "connect")
    /\ c_ret' = [c_ret EXCEPT ![c] = None]
    /\ attempted' = [attempted EXCEPT ![c] = TRUE]
    /\ UNCHANGED << schedVars, otherVars, batchVars, reconnect_lock >>

\* disconnect() (xt_trader.py:835-852)
disconnect(c) ==
    /\ Enter(c, "disconnect", "return")
    /\ is_connected' = FALSE
    /\ c_ret' = [c_ret EXCEPT ![c] = None]
    /\ attempted' = [attempted EXCEPT ![c] = FALSE]
    /\ UNCHANGED << schedVars, otherVars, batchCallVars, is_mock_mode, reconnect_lock >>

\* an executor in either mode, connected or not, with no call in progress
ConnInit ==
    /\ SchedulerIdle
    /\ ConnIdle
    /\ OtherIdle
    /\ is_connected \in BOOLEAN
    /\ is_mock_mode \in BOOLEAN
    /\ b_orders = << >>
    /\ b_idx = 1
    /\ b_results = << >>
    /\ b_state = "returned"
    /\ b_exc = "none"
    /\ placeCalls = {}
    /\ epLog = << >>

ConnNext ==
    \E c \in Callers :
        \/ reconnect_call(c)
        \/ reconnect_acquire(c)
        \/ reconnect_disconnect(c)
        \/ connect_start(c)
        \/ connect_connect(c)
        \/ connect_subscribe(c)
        \/ call_return(c)
        \/ check_connection_call(c)
        \/ connect_call(c)
        \/ disconnect(c)

\* threads calling into one executor's connection management
ConnSpec == ConnInit /\ [][ConnNext]_vars

(***************************************************************************)
(* Properties of reconnection.                                             *)
(***************************************************************************)
\* C8: of two or more threads whose reconnect() calls overlap, only one
\* performs a reconnection attempt (disconnect + connect); the others wait
\* and return its result without an attempt of their own.
C8_SerializedReconnectOrig ==
    \A a, b \in Callers :
        (a # b /\ b \in peers[a]
            /\ c_op[a] = "reconnect" /\ c_op[b] = "reconnect")
        => ~(attempted[a] /\ attempted[b])
\* a step in which thread c comes to the end of connect()
ConnectEnds(c) ==
    /\ c_pc[c] \in { "connect", "started", "subscribe" }
    /\ c_pc'[c] = "return"

\* C12: whenever connect() returns failure (endpoint connect error,
\* subscribe error, exception), is_connected is false on return.
C12_FailedConnectDisconnectedOrig ==
    [][ \A c \in Callers :
            (ConnectEnds(c) /\ c_ret'[c] = FALSE) => ~is_connected' ]_vars

\* a step in which thread c calls check_connection()
CheckConnectionBegins(c) ==
    /\ c_pc[c] = "idle"
    /\ c_pc'[c] # "idle"
    /\ c_op'[c] = "check_connection"

\* C13: check_connection returns true if the session is live; if it is
\* not live it makes a reconnection attempt (and returns its outcome), in
\* live and in mock mode alike.
C13_CheckConnectionReconnectsOrig ==
    [][ \A c \in Callers :
            CheckConnectionBegins(c) =>
                IF is_connected
                THEN c_pc'[c] = "return" /\ c_ret'[c] = TRUE
                ELSE attempted'[c] /\ c_pc'[c] = "connect" ]_vars

\* thread c is inside the endpoint connect sequence of connect(): it has
\* called xttrader.start() and has not yet come to the end of subscribe
InConnectSequence(c) == c_pc[c] \in { "started", "subscribe" }

\* C28: at most one connection attempt is in progress at any time: no
\* interleaving of concurrent executor calls lets two threads run the
\* endpoint connect sequence (start / connect / subscribe) at once.
C28_OneConnectionAttemptOrig ==
    Cardinality({ c \in Callers : InConnectSequence(c) }) <= 1

\* a step in which thread c comes to the end of the connect() that its
\* reconnect() returns the result of
ReconnectEnds(c) == c_op[c] = "reconnect" /\ ConnectEnds(c)

\* a step in which thread c, inside reconnect(), drops the old connection
ReconnectDrops(c) == c_pc[c] = "locked" /\ c_pc'[c] = "connect"

\* C29: when reconnect() returns, is_connected is true iff it returned
\* success, and a reconnect started while connected first passes through
\* a state that is not connected.
C29_ReconnectMatchesResultOrig ==
    [][ \A c \in Callers :
            /\ ReconnectEnds(c) => (is_connected' = c_ret'[c])
            /\ ReconnectDrops(c) => ~is_connected' ]_vars

(***************************************************************************)
(* One call of XTTraderClient.place_order (xt_trader.py:242-345) made      *)
(* directly, with any price and volume.                                    *)
(***************************************************************************)
\* the prices (in cents) and volumes (in shares) a caller may pass
PlacePrices == { 0 - 1050, 0, 1050 }
PlaceVolumes == { 0 - 100, 0, 50, 100, 150, 200 }

\* batch_place_orders is not in use
BatchNotCalled ==
    /\ b_orders = << >>
    /\ b_idx = 1
    /\ b_results = << >>
    /\ b_state = "returned"
    /\ b_exc = "none"
    /\ placeCalls = {}
    /\ epLog = << >>

\* place_order(stock_code, price, volume) runs from its first line to its
\* return
place_order_call ==
    /\ p_state = "called"
    /\ \E epc \in ConnectOutcomes, epo \in OrderOutcomes :
          LET r == place_order(p_price, p_volume, is_mock_mode, is_connected,
                               epc, epo)
          IN  /\ p_result' = [success |-> r.success, order_id |-> r.order_id,
                              message |-> r.message, attempts |-> r.attempts]
              /\ p_log' = r.calls
              /\ is_connected' = r.conn
              /\ session_lost' = (session_lost /\ ~(r.attempts > 0 /\ r.conn))
    /\ p_state' = "returned"
    /\ UNCHANGED << schedVars, connVars, batchCallVars, volumeVars,
                    laterVars, is_mock_mode, p_op, p_price, p_volume >>

\* the caller calls place_order again with other arguments
place_order_again ==
    /\ p_state = "returned"
    /\ p_price' \in PlacePrices
    /\ p_volume' \in PlaceVolumes
    /\ p_state' = "called"
    /\ p_result' = NoResult
    /\ p_log' = << >>
    /\ UNCHANGED << schedVars, connVars, batchVars, volumeVars, laterVars,
                    p_op, session_lost >>

\* place_order is called on an executor in either mode, connected or not
PlaceInit ==
    /\ SchedulerIdle
    /\ ConnIdle
    /\ BatchNotCalled
    /\ is_connected \in BOOLEAN
    /\ is_mock_mode \in BOOLEAN
    /\ VolumeIdle
    /\ LaterIdle
    /\ p_op = "place_order"
    /\ p_price \in PlacePrices
    /\ p_volume \in PlaceVolumes
    /\ p_state = "called"
    /\ p_result = NoResult
    /\ p_log = << >>
    /\ session_lost = FALSE

PlaceNext ==
    \/ place_order_call
    \/ place_order_again

\* calls of place_order, one after the other
PlaceSpec == PlaceInit /\ [][PlaceNext]_vars

(***************************************************************************)
(* Properties of place_order.                                              *)
(***************************************************************************)
\* the arguments fail the validation of place_order
InvalidArguments ==
    p_price <= 0 \/ p_volume <= 0 \/ p_volume % 100 # 0

\* C11: a place_order call with price <= 0, or with a volume that is not a
\* positive multiple of 100, returns a failure without any call of an
\* endpoint primitive, whatever the connection state.
C11_ValidatesBeforeEndpointOrig ==
    (p_state = "returned" /\ InvalidArguments)
        => (~p_result.success /\ p_log = << >>)
\* the call was reported as failed for lack of a working connection: the
\* session was down, or the endpoint call itself failed
ConnectivityFailure ==
    /\ p_state = "returned"
    /\ p_result.message.text \in { "not_connected", "order_failed" }

\* C14: an executor call that meets a connectivity fault makes exactly one
\* reconnection attempt before it is reported as failed, never none and
\* never more than one.
C14_RetriedExactlyOnceOrig ==
    ConnectivityFailure => p_result.attempts = 1
(***************************************************************************)
(* The endpoint's disconnect push, XTTraderCallback.on_disconnected        *)
(* (xt_trader.py:28-35, registered at 145-146), between place_order calls. *)
(***************************************************************************)

\* the endpoint drops the session of a connected live client and calls
\* on_disconnected, which writes a log line
on_disconnected ==
    /\ ~is_mock_mode
    /\ is_connected
    /\ ~session_lost
    /\ session_lost' = TRUE
    /\ UNCHANGED << schedVars, connVars, batchVars, volumeVars, laterVars,
                    p_op, p_price, p_volume, p_state, p_result, p_log >>

DetectNext ==
    \/ place_order_call
    \/ place_order_again
    \/ on_disconnected

\* calls of place_order, the endpoint dropping the session in between
DetectSpec == PlaceInit /\ [][DetectNext]_vars

\* a step that is a place_order call made after the endpoint pushed a
\* disconnect to the connected client
CallAfterPush ==
    /\ p_state = "called"
    /\ p_state' = "returned"
    /\ session_lost
    /\ is_connected

\* C30: after the endpoint pushed a disconnect notification to a connected
\* executor, the next executor operation makes a reconnection attempt
\* through check_connection before it uses the endpoint, and does not end
\* with connected still true for the lost session.
C30_DisconnectDetectedOrig ==
    [][ CallAfterPush =>
            /\ p_result'.attempts >= 1
            /\ (p_log' # << >> => p_log'[1] = "start")
            /\ ~(session_lost' /\ is_connected') ]_vars

(***************************************************************************)
(* XTTraderClient._calculate_volume (xt_trader.py:347-362), the same       *)
(* computation as utils.calculate_shares (utils.py:72-92), called on       *)
(* amounts around whole numbers of lots.                                   *)
(***************************************************************************)
\* the highest of the small prices tried, in cents
MaxPrice == 7
\* the most lots an amount tried pays for
MaxLots == 2

\* prices in cents: negative, zero, 0.01 up to MaxPrice cents, and 5.19
VolumePrices == ((0 - 1)..MaxPrice) \cup { 519 }

\* the amounts tried at price p: those that pay for exactly k lots, one
\* cent less and one cent more
VolumeAmounts(p) ==
    { 100 * k * p + d : k \in 0..MaxLots, d \in { 0 - 1, 0, 1 } }

\* _calculate_volume(amount, price) runs and returns
calculate_volume_call ==
    /\ v_state = "called"
    /\ v_volume' = calculate_volume(v_amount, v_price)
    /\ v_state' = "returned"
    /\ UNCHANGED << schedVars, batchVars, connVars, placeVars, laterVars,
                    v_amount, v_price >>

\* the caller calls _calculate_volume again with other arguments
calculate_volume_again ==
    /\ v_state = "returned"
    /\ \E p \in VolumePrices :
          /\ v_price' = p
          /\ v_amount' \in VolumeAmounts(p)
    /\ v_state' = "called"
    /\ v_volume' = 0
    /\ UNCHANGED << schedVars, batchVars, connVars, placeVars, laterVars >>

VolumeInit ==
    /\ SchedulerIdle
    /\ ConnIdle
    /\ BatchIdle
    /\ PlaceIdle
    /\ LaterIdle
    /\ v_price \in VolumePrices
    /\ v_amount \in VolumeAmounts(v_price)
    /\ v_state = "called"
    /\ v_volume = 0

VolumeNext ==
    \/ calculate_volume_call
    \/ calculate_volume_again

\* calls of _calculate_volume, one after the other
VolumeSpec == VolumeInit /\ [][VolumeNext]_vars

\* C16: for price > 0 and amount >= 0 the computed volume equals
\* floor(floor(amount/price)/100)*100, is a non-negative multiple of 100
\* and is at most floor(amount/price), so that volume*price never exceeds
\* amount; for price <= 0 the volume is 0.
C16_VolumeComputationOrig ==
    v_state = "returned" =>
        /\ (v_price > 0 /\ v_amount >= 0) =>
              /\ v_volume = ((v_amount \div v_price) \div 100) * 100
              /\ v_volume >= 0
              /\ v_volume % 100 = 0
              /\ v_volume <= v_amount \div v_price
              /\ v_volume * v_price <= v_amount
        /\ v_price <= 0 => v_volume = 0

(***************************************************************************)
(* OrderStorage: the order store kept in data/orders.json                  *)
(***************************************************************************)

\* the last reading of the clock, and the most calls that are followed
MaxClock == 1
MaxCalls == 3

\* the order plans handed to save_order
Plans == { "planA", "planB" }

\* strftime('%Y%m%d%H%M%S%f') renders the reading as a string of digits of
\* fixed width, most significant first; two digits are kept here
strftime(t) == << (t \div 10) % 10, t % 10 >>

\* the identifiers a caller may ask for
Ids == { strftime(t) : t \in 0..MaxClock }

\* the order of Python strings: the first differing character decides, and
\* a proper prefix comes first
StrLess(a, b) ==
    \/ /\ Len(a) < Len(b)
       /\ \A j \in 1..Len(a) : a[j] = b[j]
    \/ \E i \in 1..Len(a) :
           /\ i <= Len(b)
           /\ a[i] < b[i]
           /\ \A j \in 1..(i - 1) : a[j] = b[j]

\* load_all_orders: the content of the file
load_all_orders == orders_file

\* the first record of `orders` that carries `order_id`, or None
get_order_by_id(orders, order_id) ==
    IF \E i \in 1..Len(orders) : orders[i].order_id = order_id
        THEN orders[CHOOSE i \in 1..Len(orders) :
                        /\ orders[i].order_id = order_id
                        /\ \A j \in 1..(i - 1) : orders[j].order_id # order_id]
        ELSE NotFound

\* the record save_order builds
Record(w) == [order_id |-> l_id[w], data |-> l_data[w]]

\* what a save_order that loaded afresh right before writing would write
save_order_contents_fresh(orders, on_disk, record) == Append(on_disk, record)

\* what save_order writes: the list it loaded, with its record appended
save_order_contents(orders, on_disk, record) == Append(orders, record)

RECURSIVE without_first(_, _)
\* a delete_order that would drop only the first record with the identifier
without_first(orders, order_id) ==
    IF orders = << >>
        THEN << >>
        ELSE IF Head(orders).order_id = order_id
                 THEN Tail(orders)
                 ELSE << Head(orders) >> \o without_first(Tail(orders), order_id)

\* new_orders of delete_order: every record with another identifier
new_orders(orders, order_id) ==
    SelectSeq(orders, LAMBDA o : o.order_id # order_id)

Range(orders) == { orders[i] : i \in 1..Len(orders) }

\* save_order, line 42 to 48: the identifier is the reading of the clock
save_order_begin(w, order_data) ==
    /\ l_pc[w] = "idle"
    /\ l_calls < MaxCalls
    /\ l_calls' = l_calls + 1
    /\ l_pc' = [l_pc EXCEPT ![w] = "save_load"]
    /\ l_op' = [l_op EXCEPT ![w] = "save"]
    /\ l_id' = [l_id EXCEPT ![w] = strftime(l_clock)]
    /\ l_data' = [l_data EXCEPT ![w] = order_data]
    /\ l_ok' = [l_ok EXCEPT ![w] = FALSE]
    /\ l_found' = [l_found EXCEPT ![w] = NotFound]
    /\ UNCHANGED << nonLedgerVars, recentVars,
                    orders_file, l_clock, l_orders, l_lost, last_saved_id >>

\* save_order, line 51: the file is read
save_order_load(w) ==
    /\ l_pc[w] = "save_load"
    /\ l_pc' = [l_pc EXCEPT ![w] = "save_dump"]
    /\ l_orders' = [l_orders EXCEPT ![w] = load_all_orders]
    /\ UNCHANGED << nonLedgerVars, recentVars,
                    orders_file, l_clock, l_op, l_id, l_data, l_ok, l_found,
                    l_lost, l_calls, last_saved_id >>

\* save_order, line 52 to 58: the file is written anew and the id returned
save_order_dump(w) ==
    /\ l_pc[w] = "save_dump"
    /\ orders_file' = save_order_contents(l_orders[w], orders_file, Record(w))
    /\ l_pc' = [l_pc EXCEPT ![w] = "idle"]
    /\ last_saved_id' = l_id[w]
    /\ l_orders' = [l_orders EXCEPT ![w] = << >>]
    /\ l_lost' = Range(orders_file) \ Range(orders_file')
    /\ UNCHANGED << nonLedgerVars, recentVars,
                    l_clock, l_op, l_id, l_data, l_ok, l_found, l_calls >>

\* delete_order, line 128: the file is read
delete_order_load(w, order_id) ==
    /\ l_pc[w] = "idle"
    /\ l_calls < MaxCalls
    /\ l_calls' = l_calls + 1
    /\ l_pc' = [l_pc EXCEPT ![w] = "delete_dump"]
    /\ l_op' = [l_op EXCEPT ![w] = "delete"]
    /\ l_id' = [l_id EXCEPT ![w] = order_id]
    /\ l_orders' = [l_orders EXCEPT ![w] = load_all_orders]
    /\ l_data' = [l_data EXCEPT ![w] = "none"]
    /\ l_ok' = [l_ok EXCEPT ![w] = FALSE]
    /\ l_found' = [l_found EXCEPT ![w] = NotFound]
    /\ UNCHANGED << nonLedgerVars, recentVars,
                    orders_file, l_clock, l_lost, last_saved_id >>

\* delete_order, line 129 to 137: False when nothing went, else a rewrite
delete_order_dump(w) ==
    /\ l_pc[w] = "delete_dump"
    /\ l_pc' = [l_pc EXCEPT ![w] = "idle"]
    /\ LET kept == new_orders(l_orders[w], l_id[w])
       IN  IF Len(kept) = Len(l_orders[w])
               THEN /\ l_ok' = [l_ok EXCEPT ![w] = FALSE]
                    /\ UNCHANGED orders_file
               ELSE /\ l_ok' = [l_ok EXCEPT ![w] = TRUE]
                    /\ orders_file' = kept
    /\ l_orders' = [l_orders EXCEPT ![w] = << >>]
    /\ l_lost' = { r \in Range(orders_file) \ Range(orders_file') :
                      r.order_id # l_id[w] }
    /\ UNCHANGED << nonLedgerVars, recentVars,
                    l_clock, l_op, l_id, l_data, l_found, l_calls,
                    last_saved_id >>

\* get_order_by_id as a call: the file is read and searched
get_order_by_id_call(w, order_id) ==
    /\ l_pc[w] = "idle"
    /\ l_calls < MaxCalls
    /\ l_calls' = l_calls + 1
    /\ l_op' = [l_op EXCEPT ![w] = "get"]
    /\ l_id' = [l_id EXCEPT ![w] = order_id]
    /\ l_found' = [l_found EXCEPT ![w] =
                      get_order_by_id(load_all_orders, order_id)]
    /\ l_data' = [l_data EXCEPT ![w] = "none"]
    /\ l_ok' = [l_ok EXCEPT ![w] = FALSE]
    /\ UNCHANGED << nonLedgerVars, recentVars,
                    orders_file, l_clock, l_pc, l_orders, l_lost,
                    last_saved_id >>

\* the largest `limit` asked of get_recent_orders
MaxLimit == 2

\* orders[first:] as Python slices: a negative index counts from the end
\* and stops at the first element, any other index counts from the front
slice_from(orders, first) ==
    LET from == IF first < 0
                    THEN IF Len(orders) + first < 0 THEN 0
                                                    ELSE Len(orders) + first
                    ELSE IF first > Len(orders) THEN Len(orders) ELSE first
    IN  SubSeq(orders, from + 1, Len(orders))

\* orders[::-1]
reversed(orders) == [i \in 1..Len(orders) |-> orders[Len(orders) + 1 - i]]

\* get_recent_orders: orders[-limit:][::-1]
get_recent_orders(orders, limit) == reversed(slice_from(orders, 0 - limit))

\* get_recent_orders as a call: the file is read, sliced and reversed
get_recent_orders_call(w, limit) ==
    /\ l_pc[w] = "idle"
    /\ l_calls < MaxCalls
    /\ l_calls' = l_calls + 1
    /\ l_op' = [l_op EXCEPT ![w] = "recent"]
    /\ l_limit' = [l_limit EXCEPT ![w] = limit]
    /\ l_recent' = [l_recent EXCEPT ![w] =
                       get_recent_orders(load_all_orders, limit)]
    /\ l_id' = [l_id EXCEPT ![w] = NoId]
    /\ l_data' = [l_data EXCEPT ![w] = "none"]
    /\ l_ok' = [l_ok EXCEPT ![w] = FALSE]
    /\ l_found' = [l_found EXCEPT ![w] = NotFound]
    /\ UNCHANGED << nonLedgerVars,
                    orders_file, l_clock, l_pc, l_orders, l_lost,
                    last_saved_id >>

\* datetime.now() moves on by a microsecond
now_advances ==
    /\ l_clock < MaxClock
    /\ l_clock' = l_clock + 1
    /\ UNCHANGED << nonLedgerVars, recentVars,
                    orders_file, l_pc, l_op, l_id, l_data, l_orders, l_ok,
                    l_found, l_lost, l_calls, last_saved_id >>

LedgerStart ==
    /\ SchedulerIdle
    /\ ConnIdle
    /\ BatchIdle
    /\ PlaceIdle
    /\ VolumeIdle
    /\ LedgerInit
    /\ HelperIdle
    /\ PlanIdle
    /\ SpikeIdle

\* the calls of one thread that write the file
WriterCalls(w) ==
    \/ \E order_data \in Plans : save_order_begin(w, order_data)
    \/ save_order_load(w)
    \/ save_order_dump(w)
    \/ \E order_id \in Ids : delete_order_load(w, order_id)
    \/ delete_order_dump(w)

\* request threads write the store as they please
LedgerNext ==
    \/ \E w \in Writers : WriterCalls(w)
    \/ now_advances

LedgerSpec == LedgerStart /\ [][LedgerNext]_vars

\* one caller at a time: each call returns before the next begins
SequentialLedgerNext ==
    \/ WriterCalls(1)
    \/ \E order_id \in Ids : get_order_by_id_call(1, order_id)
    \/ \E limit \in 0..MaxLimit : get_recent_orders_call(1, limit)
    \/ now_advances

SequentialLedgerSpec == LedgerStart /\ [][SequentialLedgerNext]_vars

(***************************************************************************)
(* Properties of the order store                                           *)
(***************************************************************************)

Returned(w, op) == l_op[w] = op /\ l_pc[w] = "idle"

\* C17: after save_order(plan) has returned an id, get_order_by_id(id)
\* gives a record whose data is the plan saved, whatever was saved and
\* deleted, one call after the other, before
C17_RoundTripOrig ==
    Returned(1, "save") =>
        get_order_by_id(orders_file, l_id[1]).data = l_data[1]

SaveReturns == \E w \in Writers : l_pc[w] = "save_dump" /\ l_pc'[w] = "idle"

UniqueIds ==
    \A i, j \in 1..Len(orders_file) :
        i # j => orders_file[i].order_id # orders_file[j].order_id

\* C18: each save_order returns an id strictly greater than the one the
\* save before it returned, and no two records of the file share an id,
\* saves at one reading of the clock included
C18_IdsIncreaseAndUniqueOrig ==
    [][SaveReturns =>
          /\ last_saved_id # NoId => StrLess(last_saved_id, last_saved_id')
          /\ UniqueIds']_vars


SaveWrites(w) == l_pc[w] = "save_dump" /\ l_pc'[w] = "idle"

\* C19: a save_order that writes after another save_order wrote, having
\* loaded before it, leaves the file without the other's record although
\* that save returned its id: whatever came into the file since the writer
\* loaded it is gone once the writer has written
C19_LostUpdate ==
    [][\A w \in Writers :
          SaveWrites(w) =>
              \A r \in Range(orders_file) \ Range(l_orders[w]) :
                  r # Record(w) => r \notin Range(orders_file')]_vars

\* two saves have returned their ids and the file holds the record of one
C19_Witness ==
    \E a, b \in Writers :
        /\ a # b
        /\ Returned(a, "save")
        /\ Returned(b, "save")
        /\ Record(a) \in l_lost
        /\ Record(a) \notin Range(orders_file)
        /\ orders_file = << Record(b) >>

DeleteReturns(w) == l_pc[w] = "delete_dump" /\ l_pc'[w] = "idle"

\* C20: delete_order(id) of an id in the file returns True and
\* get_order_by_id(id) then finds nothing; delete_order of an id not in the
\* file returns False and leaves the file as it was
C20_Delete ==
    [][\A w \in Writers :
          DeleteReturns(w) =>
              IF get_order_by_id(orders_file, l_id[w]) # NotFound
                  THEN /\ l_ok'[w]
                       /\ get_order_by_id(orders_file', l_id[w]) = NotFound
                  ELSE /\ ~l_ok'[w]
                       /\ orders_file' = orders_file]_vars

\* a record was deleted and another one is still in the file
C20_Witness ==
    /\ Returned(1, "delete")
    /\ l_ok[1]
    /\ get_order_by_id(orders_file, l_id[1]) = NotFound
    /\ orders_file # << >>



\* the records of the list whose identifier is not order_id, in their order
Others(orders, order_id) ==
    SelectSeq(orders, LAMBDA o : o.order_id # order_id)

\* C33: delete_order(id) leaves every record whose identifier differs from
\* id in the file with its content and in its relative order, and removes
\* nothing else.
C33_DeleteFrameOrig ==
    [][\A w \in Writers :
          DeleteReturns(w) =>
              Others(orders_file', l_id[w]) = Others(orders_file, l_id[w])]_vars

Min(a, b) == IF a < b THEN a ELSE b

\* C21: get_recent_orders(n) returns the min(n, size) records saved last,
\* the newest first, for every n >= 0; for n = 0 it returns no record
C21_RecentOrig ==
    Returned(1, "recent") =>
        LET size == Len(orders_file)
            count == Min(l_limit[1], size)
        IN  /\ Len(l_recent[1]) = count
            /\ \A i \in 1..count : l_recent[1][i] = orders_file[size + 1 - i]



(***************************************************************************)
(* The pending-orders file (utils.py:421-488) and the manual triggers of   *)
(* the scheduler (order_scheduler.py:143-161).                             *)
(***************************************************************************)

\* what these calls leave alone
helperFrame ==
    << batchVars, connVars, placeVars, volumeVars, ledgerVars, planVars,
       spikeVars, now,
       tradingDay, check_interval, running, nthreads, pc, wake, raised,
       last_check_time, last_reload_time, unfilled, captureTick, reloadTick,
       owed, built >>

\* a load that would open the file without looking for it or catching
load_pending_orders_unguarded(file) ==
    IF file.exists
        THEN [exc |-> IF file.whole THEN "none" ELSE "JSONDecodeError",
              orders |-> IF file.whole THEN file.orders ELSE << >>]
        ELSE [exc |-> "FileNotFoundError", orders |-> << >>]

\* load_pending_orders (utils.py:450-470): [] when the file is not there,
\* [] when json.load raises on its text (lines 468-470), else the 'orders'
\* of the document; no exception leaves it
load_pending_orders(file) ==
    IF ~file.exists
        THEN [exc |-> "none", orders |-> << >>]
        ELSE IF ~file.whole
        THEN [exc |-> "none", orders |-> << >>]
        ELSE [exc |-> "none", orders |-> file.orders]

\* an order whose amount is a decimal.Decimal, a type json.dump has no
\* encoding for
DecimalOrder == [stock_code |-> "sz.300750", price |-> 2000, amount |-> 300000]

\* json.dump can encode the order: its values are str, int or float
json_encodable(o) == o # DecimalOrder

\* the orders of the list that come before its first order json.dump
\* cannot encode
encoded_prefix(orders) ==
    LET bad == { i \in 1..Len(orders) : ~json_encodable(orders[i]) }
        first == CHOOSE i \in bad : \A j \in bad : i <= j
    IN  IF bad = {} THEN orders ELSE SubSeq(orders, 1, first - 1)

\* save_pending_orders (utils.py:421-447).  makedirs or open() fails: the
\* file is as it was and False is returned.  Else open(file_path, 'w')
\* has emptied the file; json.dump writes the document piece by piece and
\* raises at the first value it cannot encode, which leaves the text cut
\* off there and False returned
save_pending_orders_call(orders) ==
    /\ \E opened \in BOOLEAN :
          LET dumped == \A i \in 1..Len(orders) : json_encodable(orders[i])
          IN  /\ pending_file' =
                    IF ~opened THEN pending_file
                    ELSE [exists |-> TRUE, orders |-> encoded_prefix(orders),
                          whole |-> dumped]
              /\ h_ok' = (opened /\ dumped)
              /\ h_last' = IF opened /\ dumped
                              THEN [any |-> TRUE, orders |-> orders]
                              ELSE h_last
    /\ h_op' = "save_pending_orders"
    /\ h_orders' = orders
    /\ h_exc' = "none"
    /\ UNCHANGED << helperFrame, resubmitted >>

load_pending_orders_call ==
    /\ h_op' = "load_pending_orders"
    /\ h_orders' = load_pending_orders(pending_file).orders
    /\ h_exc' = load_pending_orders(pending_file).exc
    /\ h_ok' = FALSE
    /\ UNCHANGED << helperFrame, pending_file, resubmitted, h_last >>

\* clear_pending_orders (utils.py:473-488): the file is removed if there
clear_pending_orders_call ==
    /\ pending_file' = AbsentFile
    /\ h_op' = "clear_pending_orders"
    /\ h_orders' = << >>
    /\ h_ok' = TRUE
    /\ h_exc' = "none"
    /\ UNCHANGED << helperFrame, resubmitted, h_last >>

\* manual_check_pending_orders (order_scheduler.py:143-151): the call of
\* self.trader.check_and_save_pending_orders, under no condition and in
\* no handler
manual_check_pending_orders ==
    /\ h_op' = "manual_check_pending_orders"
    /\ h_exc' = IF TraderLookup("check_and_save_pending_orders") = "method"
                    THEN "none"
                    ELSE TraderLookup("check_and_save_pending_orders")
    /\ h_orders' = << >>
    /\ h_ok' = FALSE
    /\ UNCHANGED << helperFrame, pending_file, resubmitted, h_last >>

\* a manual reload that would record itself as the day's reload
manual_reload_pending_orders_recording ==
    /\ h_op' = "manual_reload_pending_orders"
    /\ h_exc' = "none"
    /\ h_orders' = << >>
    /\ h_ok' = FALSE
    /\ last_reload_time' = now
    /\ UNCHANGED << batchVars, connVars, placeVars, volumeVars, ledgerVars,
                    planVars, spikeVars, now, tradingDay, check_interval,
                    running, nthreads, pc, wake, raised, last_check_time,
                    unfilled, captureTick, reloadTick, owed, built,
                    pending_file, resubmitted, h_last >>

\* manual_reload_pending_orders (order_scheduler.py:153-161): the call of
\* self.trader.reload_pending_orders, under no condition and in no handler
manual_reload_pending_orders ==
    /\ h_op' = "manual_reload_pending_orders"
    /\ h_exc' = IF TraderLookup("reload_pending_orders") = "method"
                    THEN "none"
                    ELSE TraderLookup("reload_pending_orders")
    /\ h_orders' = << >>
    /\ h_ok' = FALSE
    /\ UNCHANGED << helperFrame, pending_file, resubmitted, h_last >>

\* the lists an unfilled-order query may return: each set of resting
\* orders in each order
Listings ==
    { q \in UNION { [1..n -> OrderBook] : n \in 0..Cardinality(OrderBook) } :
        \A i, j \in 1..Len(q) : i # j => q[i] # q[j] }

PendingNext ==
    \/ \E orders \in Listings : save_pending_orders_call(orders)
    \/ load_pending_orders_call
    \/ clear_pending_orders_call
    \/ manual_check_pending_orders
    \/ manual_reload_pending_orders
    \/ Advance
    \/ MarketFill

\* an operator works the file and the manual triggers through the days,
\* the loop not started
PendingSpec == Init /\ [][PendingNext]_vars

(***************************************************************************)
(* Properties of the pending-orders file and the manual triggers           *)
(***************************************************************************)

\* a step that is the call `op`
HelperCalled(op) == h_op' = op /\ helperVars' # helperVars

\* C22: load_pending_orders with the file absent returns the empty list
\* and raises nothing, and a reload with the file absent resubmits nothing
C22_AbsentFileLoadsEmpty ==
    [][/\ (HelperCalled("load_pending_orders") /\ ~pending_file.exists)
            => (h_orders' = << >> /\ h_exc' = "none")
       /\ (HelperCalled("manual_reload_pending_orders")
               /\ ~pending_file.exists)
            => resubmitted' = resubmitted]_vars

\* a load that found no file has returned the empty list
C22_Witness ==
    /\ h_op = "load_pending_orders"
    /\ ~pending_file.exists
    /\ h_orders = << >>
    /\ h_exc = "none"
    /\ now > FirstInstant



\* C27: a manual check and a manual reload run whenever they are called,
\* with no test of window, trading day or debounce, and do what the
\* scheduled path is to do: the check leaves the file holding the orders
\* unfilled and returns them, the reload resubmits the orders of the file
C27_ManualTriggersOrig ==
    [][/\ HelperCalled("manual_check_pending_orders")
            => /\ h_exc' = "none"
               /\ { h_orders'[i] : i \in 1..Len(h_orders') } = unfilled
               /\ pending_file'.exists /\ pending_file'.whole
               /\ pending_file'.orders = h_orders'
       /\ HelperCalled("manual_reload_pending_orders")
            => /\ h_exc' = "none"
               /\ resubmitted' =
                     resubmitted \cup
                        { load_pending_orders(pending_file).orders[i] :
                            i \in 1..Len(load_pending_orders(pending_file).orders) }
      ]_vars

(***************************************************************************)
(* Captures and loads of the pending-orders file, one after the other.     *)
(***************************************************************************)
\* the longest list handed to save_pending_orders
MaxCapture == 2

\* the lists a capture may hand over
Captures ==
    UNION { [1..n -> OrderBook \cup {DecimalOrder}] : n \in 0..MaxCapture }

CaptureNext ==
    \/ \E orders \in Captures : save_pending_orders_call(orders)
    \/ load_pending_orders_call

\* any sequence of captures and loads
CaptureSpec == Init /\ [][CaptureNext]_vars

\* C32: after any sequence of captures, a load of the pending-orders file
\* returns exactly the order list of the most recent successful capture,
\* each order unchanged and in its place, with no order of an earlier
\* capture merged in.
C32_WholesaleOrig ==
    (h_op = "load_pending_orders" /\ h_last.any)
        => h_orders = h_last.orders

(***************************************************************************)
(* Properties of the gating of the ticks                                   *)
(***************************************************************************)

\* a step that is a tick of the loop begun while running
TickRuns == \E th \in Threads : pc[th] = "head" /\ pc'[th] # "head" /\ running

\* seconds since midnight
TimeOfDay(t) == t % SecondsPerDay

\* t is of a trading day, from 14:57:00 to 15:00:00
CaptureGate(t) ==
    /\ tradingDay[(t \div SecondsPerDay) + 1]
    /\ TimeOfDay(t) >= (CloseHour * 60 - CheckLeadMinutes) * 60
    /\ TimeOfDay(t) <= CloseHour * 60 * 60

\* t is of a trading day, from 09:33:00 to 09:40:00
ReloadGate(t) ==
    /\ tradingDay[(t \div SecondsPerDay) + 1]
    /\ TimeOfDay(t) >= (OpenHour * 60 + OpenMinute + ReloadFromMinutes) * 60
    /\ TimeOfDay(t) <= (OpenHour * 60 + OpenMinute + ReloadToMinutes) * 60

\* C26: a tick makes the capture call only on a trading day between
\* marketClose - 3 min and marketClose, and the reload call only on a
\* trading day between marketOpen + 3 min and marketOpen + 10 min; a tick
\* outside both leaves the last-check time, the last-reload time and the
\* pending-orders file as they were and calls neither the executor nor
\* the endpoint
C26_Gating ==
    [][/\ CaptureCalled => (TickRuns /\ CaptureGate(now))
       /\ ReloadCalled => (TickRuns /\ ReloadGate(now))
       /\ (TickRuns /\ ~CaptureGate(now) /\ ~ReloadGate(now))
            => UNCHANGED << schedState, callObs, execVars, unfilled >>
      ]_vars

\* ticks have made the capture call and the reload call, and a thread
\* sleeps after a tick outside both windows
C26_Witness ==
    /\ captureTick # None
    /\ reloadTick # None
    /\ ~CaptureGate(now)
    /\ ~ReloadGate(now)
    /\ \E th \in Threads : pc[th] = "sleep" /\ wake[th] # None
                                           /\ wake[th] = now + check_interval



(***************************************************************************)
(* FibonacciPyramidStrategy.generate_pyramid_orders (strategy.py:124-201)  *)
(* and the route /api/analyze (app.py:120-173).  The capital is kept in    *)
(* mills (0.001), prices and order amounts in cents, levels in 0.00001.    *)
(***************************************************************************)

\* the largest small capital, in mills
MaxCapital == 60

\* capitals around zero, below a tenth, and from 100000.00 upward in
\* steps of 0.025
Capitals ==
    ((0 - MaxCapital)..MaxCapital)
        \cup { 100000000 + 25 * k : k \in 0..MaxCapital }

\* <<highest_price, lowest_price>> of the window after the limit-up day
PricePairs == { << 10000, 8000 >>, << 1236, 1051 >>, << 1050, 1050 >> }

\* the integer nearest to num / den (den > 0); a value halfway between two
\* integers goes the way `tie` says, as the binary float that stands for
\* it lies on either side
Nearest(num, den, tie) ==
    LET q == num \div den
        r == num % den
    IN  IF 2 * r < den THEN q
        ELSE IF 2 * r > den THEN q + 1
        ELSE IF tie = "up" THEN q + 1 ELSE q

\* a rounding to whole units of 1.00, given the value num / den in cents
round_to_unit(num, den, tie) == 100 * Nearest(num, 100 * den, tie)

\* round(x, 2), given the value num / den in cents: the cents nearest
round2(num, den, tie) == Nearest(num, den, tie)

\* levels that would be measured upward from the low
calculate_fibonacci_extensions(high, low) ==
    [ratio \in Ratios |-> low * 1000 + (high - low) * ratio]

\* calculate_fibonacci_levels (strategy.py:103-122): high - diff * ratio,
\* the ratio in thousandths, the level in 0.00001
calculate_fibonacci_levels(high, low) ==
    [ratio \in Ratios |-> high * 1000 - (high - low) * ratio]

\* a grid that would leave out its end point
linspace_open(first, last, num) ==
    [i \in 1..(num - 1) |->
        [num |-> num * first + (i - 1) * (last - first), den |-> num]]

\* np.linspace(first, last, num): num points, both ends among them; the
\* point i is the fraction num / den
linspace(first, last, num) ==
    [i \in 1..num |->
        [num |-> (num - 1) * first + (i - 1) * (last - first),
         den |-> num - 1]]

\* the orders of one stage (strategy.py:163-171, 178-186): the amount is
\* the fraction per_num / per_den of a cent, the prices are in 0.00001
stage_orders(stage, prices, per_num, per_den, tie) ==
    [i \in 1..Len(prices) |->
        [stage |-> stage,
         order_no |-> i,
         price |-> round2(prices[i].num, prices[i].den * 1000, tie),
         amount |-> round2(per_num, per_den, tie)]]

\* a plan whose second stage would run between the levels 0.700 and 0.786
pyramid_orders_lower(total, high, low, tie) ==
    LET fib_levels == calculate_fibonacci_levels(high, low)
        price_range_1 == linspace(fib_levels[500], fib_levels[618], 5)
        price_range_2 == linspace(fib_levels[700], fib_levels[786], 3)
    IN  stage_orders(1, price_range_1, 7 * total, 500, tie)
            \o stage_orders(2, price_range_2, 3 * total, 300, tie)

\* result['orders'] of generate_pyramid_orders (strategy.py:153-186):
\* stage 1 is total * 0.7 / 5 a piece, stage 2 total * 0.3 / 3 a piece
pyramid_orders(total, high, low, tie) ==
    LET fib_levels == calculate_fibonacci_levels(high, low)
        price_range_1 == linspace(fib_levels[500], fib_levels[618], 5)
        price_range_2 == linspace(fib_levels[618], fib_levels[700], 3)
    IN  stage_orders(1, price_range_1, 7 * total, 500, tie)
            \o stage_orders(2, price_range_2, 3 * total, 300, tie)

\* generate_pyramid_orders called by a caller of the strategy: it raises
\* when no limit-up day is found (line 146-147) and else returns the plan
generate_pyramid_orders_call ==
    /\ g_state = "called"
    /\ g_via = "direct"
    /\ IF g_found
           THEN /\ g_state' = "returned"
                /\ g_plan' = pyramid_orders(g_total, g_high, g_low, g_tie)
                /\ g_levels' = calculate_fibonacci_levels(g_high, g_low)
           ELSE /\ g_state' = "raised"
                /\ g_plan' = << >>
                /\ UNCHANGED g_levels
    /\ UNCHANGED << schedVars, batchVars, connVars, placeVars, volumeVars,
                    ledgerVars, helperVars, spikeVars, g_total, g_high, g_low,
                    g_found, g_tie, g_via, g_status >>

\* analyze_stock (app.py:120-173): 400 for a total_amount <= 0 (line
\* 145-146); else the plan is generated and saved, and an exception of the
\* strategy becomes a 500 (handle_exceptions, line 87-89)
analyze_stock ==
    /\ g_state = "called"
    /\ g_via = "route"
    /\ IF g_total <= 0
           THEN /\ g_status' = 400
                /\ g_state' = "returned"
                /\ g_plan' = << >>
                /\ UNCHANGED << orders_file, g_levels >>
           ELSE IF g_found
           THEN /\ g_status' = 200
                /\ g_state' = "returned"
                /\ g_plan' = pyramid_orders(g_total, g_high, g_low, g_tie)
                /\ g_levels' = calculate_fibonacci_levels(g_high, g_low)
                /\ orders_file' =
                      save_order_contents(
                          load_all_orders, orders_file,
                          [order_id |-> strftime(l_clock), data |-> "plan"])
           ELSE /\ g_status' = 500
                /\ g_state' = "raised"
                /\ g_plan' = << >>
                /\ UNCHANGED << orders_file, g_levels >>
    /\ UNCHANGED << schedVars, batchVars, connVars, placeVars, volumeVars,
                    helperVars, spikeVars, g_total, g_high, g_low, g_found,
                    g_tie, g_via, l_clock, l_pc, l_op, l_id, l_data, l_orders, l_ok,
                    l_found, l_lost, l_calls, last_saved_id, recentVars >>

\* a plan is asked for, of the strategy or of the route
PlanInit ==
    /\ SchedulerIdle
    /\ ConnIdle
    /\ BatchIdle
    /\ PlaceIdle
    /\ VolumeIdle
    /\ LedgerInit
    /\ HelperIdle
    /\ SpikeIdle
    /\ g_total \in Capitals
    /\ \E pair \in PricePairs : g_high = pair[1] /\ g_low = pair[2]
    /\ g_found \in BOOLEAN
    /\ g_tie \in { "down", "up" }
    /\ g_via \in { "direct", "route" }
    /\ g_state = "called"
    /\ g_plan = << >>
    /\ g_status = 0
    /\ g_levels = NoLevels

PlanNext ==
    \/ generate_pyramid_orders_call
    \/ analyze_stock

PlanSpec == PlanInit /\ [][PlanNext]_vars

(***************************************************************************)
(* Properties of the plan                                                  *)
(***************************************************************************)

PlanReturned == g_state = "returned" /\ g_plan # << >>

\* C23: for every capital above 0 and every pair of levels the plan has
\* exactly 8 orders: 5 of stage 1 numbered 1 to 5, then 3 of stage 2
\* numbered 1 to 3
C23_EightOrders ==
    (PlanReturned /\ g_total > 0) =>
        /\ Len(g_plan) = 8
        /\ \A i \in 1..5 : g_plan[i].stage = 1 /\ g_plan[i].order_no = i
        /\ \A i \in 1..3 :
              g_plan[5 + i].stage = 2 /\ g_plan[5 + i].order_no = i

\* a plan for a capital above 0 was returned by the route
C23_Witness ==
    /\ PlanReturned
    /\ g_via = "route"
    /\ g_total > MaxCapital
    /\ g_status = 200

\* the sum of the amounts of the orders of a stage, in cents
RECURSIVE SumAmounts(_, _)
SumAmounts(orders, stage) ==
    IF orders = << >>
        THEN 0
        ELSE (IF Head(orders).stage = stage THEN Head(orders).amount ELSE 0)
                 + SumAmounts(Tail(orders), stage)

Abs(x) == IF x < 0 THEN 0 - x ELSE x

C35_GridEndpoints ==
    PlanReturned =>
        /\ \A i \in 1..5 :
              g_plan[i].price =
                  Nearest(4 * g_levels[500]
                              + (i - 1) * (g_levels[618] - g_levels[500]),
                          4 * 1000, g_tie)
        /\ \A i \in 1..3 :
              g_plan[5 + i].price =
                  Nearest(2 * g_levels[618]
                              + (i - 1) * (g_levels[700] - g_levels[618]),
                          2 * 1000, g_tie)
        /\ g_plan[1].price = Nearest(g_levels[500], 1000, g_tie)
        /\ g_plan[5].price = Nearest(g_levels[618], 1000, g_tie)
        /\ g_plan[6].price = g_plan[5].price
        /\ g_plan[8].price = Nearest(g_levels[700], 1000, g_tie)

\* a plan was returned whose levels differ and whose level 0.500 lies
\* halfway between two cents
C35_Witness ==
    /\ PlanReturned
    /\ g_high > g_low
    /\ g_levels[500] % 1000 = 500
    /\ g_plan[1].price > g_plan[5].price
    /\ g_plan[6].price > g_plan[8].price

\* C36: each of the five levels is high - (high - low) * ratio for the
\* ratios 0.382, 0.500, 0.618, 0.700 and 0.786; high 100 and low 80 give
\* the levels 90.00, 87.64 and 86.00 for 0.500, 0.618 and 0.700; for
\* high >= low the levels do not increase with the ratio and lie within
\* [low, high]
C36_Levels ==
    PlanReturned =>
        /\ DOMAIN g_levels = { 382, 500, 618, 700, 786 }
        /\ \A r \in DOMAIN g_levels :
              g_levels[r] = 1000 * g_high - (g_high - g_low) * r
        /\ (g_high = 10000 /\ g_low = 8000) =>
              /\ g_levels[500] = 9000000
              /\ g_levels[618] = 8764000
              /\ g_levels[700] = 8600000
        /\ g_high >= g_low =>
              /\ \A r, q \in DOMAIN g_levels :
                    r <= q => g_levels[r] >= g_levels[q]
              /\ \A r \in DOMAIN g_levels :
                    1000 * g_low <= g_levels[r] /\ g_levels[r] <= 1000 * g_high

\* a plan was returned for the high 100.00 and the low 80.00
C36_Witness ==
    /\ PlanReturned
    /\ g_high = 10000
    /\ g_low = 8000
    /\ g_levels[618] = 8764000

\* C25: for a capital of zero or below the plan-building operation fails:
\* it returns no plan, and nothing is saved
C25_InvalidCapitalOrig ==
    (g_state # "called" /\ g_total <= 0) =>
        /\ g_plan = << >>
        /\ g_state = IF g_via = "direct" THEN "raised" ELSE "returned"
        /\ orders_file = << >>

(***************************************************************************)
(* The scheduler constructed anew while the days go on: the process is     *)
(* run again, its loop threads are gone and OrderScheduler.__init__        *)
(* (order_scheduler.py:33-47) runs on a fresh instance.                    *)
(***************************************************************************)

\* the threads of the old process are dead; the new instance has the
\* fields __init__ assigns (lines 41-47); the file and the endpoint stay
restart ==
    /\ nthreads < MaxStarts
    /\ running' = FALSE
    /\ pc' = [th \in Threads |->
                IF pc[th] = "unborn" THEN "unborn" ELSE "exited"]
    /\ wake' = [th \in Threads |-> None]
    /\ raised' = [th \in Threads |-> FALSE]
    /\ last_check_time' = None
    /\ last_reload_time' = None
    /\ built' = now
    /\ UNCHANGED << execVars, now, tradingDay, check_interval, nthreads,
                    pending_file, resubmitted, unfilled, owed, callObs >>

RestartNext ==
    \/ start
    \/ restart
    \/ \E th \in Threads : Tick(th)
    \/ \E th \in Threads : Wake(th)
    \/ Advance

\* the scheduler over the modelled days, restarted at any moment
RestartSpec == Init /\ [][RestartNext]_vars

\* the scheduler was constructed inside the reload window of a date on
\* which a tick had already made the reload call
RestartedAfterReload ==
    /\ reloadTick # None
    /\ reloadTick <= built
    /\ Date(reloadTick) = Date(built)
    /\ InReloadWindow(built)

\* C31: a scheduler restarted (constructed anew) inside the reload window
\* of a date on which the reload already ran makes no reload call again
\* on that date.
C31_RestartKeepsReloadDateOrig ==
    [][ (RestartedAfterReload /\ Date(now) = Date(built)) => ~ReloadCalled ]_vars

(***************************************************************************)
(* FibonacciPyramidStrategy.find_latest_limit_up (strategy.py:31-101) on   *)
(* the rows the data source returns, oldest first.  Prices are in cents,   *)
(* pctChg in hundredths of a percent.                                      *)
(***************************************************************************)
\* the most rows the data source returns
MaxBars == 3

\* line 77: pctChg >= 9.5
LimitUpThreshold == 950

\* a row with a field pd.to_numeric(errors='coerce') turns into NaN
BadRow == [ok |-> FALSE, pctChg |-> 0, high |-> 0, low |-> 0]

\* the rows whose fields all parse
GoodRows ==
    { [ok |-> TRUE, pctChg |-> p, high |-> hl[1], low |-> hl[2]] :
        p \in { 120, 949, 950 },
        hl \in { << 1100, 1000 >>, << 1200, 950 >>, << 1050, 1020 >> } }

RowLists == UNION { [1..n -> GoodRows \cup {BadRow}] : n \in 0..MaxBars }

\* the DataFrame after to_numeric and dropna (lines 63-73): the rows that
\* parse, each under the index label it was given at line 63 (its place
\* among all rows, from 0); its date stands in the same order
dropna(rows) ==
    SelectSeq([i \in 1..Len(rows) |->
                  [label |-> i - 1, date |-> i, ok |-> rows[i].ok,
                   pctChg |-> rows[i].pctChg, high |-> rows[i].high,
                   low |-> rows[i].low]],
              LAMBDA r : r.ok)

\* the largest and the smallest of a non-empty set of numbers
SetMax(S) == CHOOSE x \in S : \A y \in S : y <= x
SetMin(S) == CHOOSE x \in S : \A y \in S : x <= y

\* find_latest_limit_up from line 73 on.  limit_up_index is the index
\* LABEL of the limit-up row (line 88); df.iloc[limit_up_index:] (line 89)
\* takes it as a POSITION among the rows that are left.  max() and min()
\* of no rows are NaN
find_latest_limit_up(rows) ==
    LET df == dropna(rows)
        limit_up_df == SelectSeq(df, LAMBDA r : r.pctChg >= LimitUpThreshold)
        dates == { limit_up_df[i].date : i \in 1..Len(limit_up_df) }
        limit_up_date == SetMax(dates)
        at_date == SelectSeq(df, LAMBDA r : r.date = limit_up_date)
        limit_up_index == at_date[1].label
        after_limit_df == SubSeq(df, limit_up_index + 1, Len(df))
        highs == { after_limit_df[i].high : i \in 1..Len(after_limit_df) }
        lows == { after_limit_df[i].low : i \in 1..Len(after_limit_df) }
    IN  IF Len(limit_up_df) = 0 THEN NoSpike
        ELSE IF Len(after_limit_df) = 0
        THEN [found |-> TRUE, nan |-> TRUE, highest_price |-> 0,
              lowest_price |-> 0]
        ELSE [found |-> TRUE, nan |-> FALSE, highest_price |-> SetMax(highs),
              lowest_price |-> SetMin(lows)]

find_latest_limit_up_call ==
    /\ k_state = "called"
    /\ k_result' = find_latest_limit_up(k_rows)
    /\ k_state' = "returned"
    /\ UNCHANGED << schedVars, batchVars, connVars, placeVars, volumeVars,
                    ledgerVars, helperVars, planVars, k_rows >>

\* the data source answers another query
find_latest_limit_up_again ==
    /\ k_state = "returned"
    /\ k_rows' \in RowLists
    /\ k_state' = "called"
    /\ k_result' = NoSpike
    /\ UNCHANGED << schedVars, batchVars, connVars, placeVars, volumeVars,
                    ledgerVars, helperVars, planVars >>

SpikeInit ==
    /\ SchedulerIdle
    /\ ConnIdle
    /\ BatchIdle
    /\ PlaceIdle
    /\ VolumeIdle
    /\ LedgerInit
    /\ HelperIdle
    /\ PlanIdle
    /\ k_rows \in RowLists
    /\ k_state = "called"
    /\ k_result = NoSpike

SpikeNext ==
    \/ find_latest_limit_up_call
    \/ find_latest_limit_up_again

SpikeSpec == SpikeInit /\ [][SpikeNext]_vars

\* the places of the rows that parse and qualify
Qualifying(rows) ==
    { i \in 1..Len(rows) : rows[i].ok /\ rows[i].pctChg >= LimitUpThreshold }

\* the rows that parse from the most recent qualifying one on
SpikeWindow(rows) ==
    { rows[i] : i \in { j \in SetMax(Qualifying(rows))..Len(rows) : rows[j].ok } }

\* C34: for every sequence of daily bars, also when unparseable rows were
\* excluded before the qualifying day, the result is not-found iff no
\* valid bar has pctChg >= 9.5, and otherwise the highest high and lowest
\* low reported are the maximum high and minimum low over exactly the
\* valid bars from the most recent qualifying day through the latest bar.
C34_SpikeWindowOrig ==
    k_state = "returned" =>
        /\ ~k_result.found <=> Qualifying(k_rows) = {}
        /\ k_result.found =>
              /\ ~k_result.nan
              /\ k_result.highest_price =
                    SetMax({ r.high : r \in SpikeWindow(k_rows) })
              /\ k_result.lowest_price =
                    SetMin({ r.low : r \in SpikeWindow(k_rows) })

(***************************************************************************)
(* The manual triggers (order_scheduler.py:143-161) called while the loop  *)
(* runs through the days.                                                  *)
(***************************************************************************)
ManualNext ==
    \/ start
    \/ \E th \in Threads : Tick(th)
    \/ \E th \in Threads : Wake(th)
    \/ Advance
    \/ manual_check_pending_orders
    \/ manual_reload_pending_orders

ManualSpec == Init /\ [][ManualNext]_vars

\* a step that is a call of a manual trigger
ManualCalled ==
    \/ HelperCalled("manual_check_pending_orders")
    \/ HelperCalled("manual_reload_pending_orders")

\* no tick of the date of now has made the reload call
NoScheduledReloadToday == reloadTick = None \/ Date(reloadTick) # Date(now)

\* C38: manual_check_pending_orders and manual_reload_pending_orders
\* never modify the last-check timestamp or the last-reload date, so a
\* manual reload does not count as the day's reload: the first tick of
\* the day in the reload window after it still makes the reload call.
C38_ManualLeavesState ==
    [][/\ ManualCalled => UNCHANGED << last_check_time, last_reload_time >>
       /\ (/\ TickRuns
           /\ ReloadGate(now)
           /\ h_op = "manual_reload_pending_orders"
           /\ NoScheduledReloadToday)
            => ReloadCalled
      ]_vars

\* a manual reload was called, and a tick inside the reload window of a
\* trading day has made the reload call
C38_Witness ==
    /\ h_op = "manual_reload_pending_orders"
    /\ h_exc # "none"
    /\ reloadTick = now
    /\ ReloadGate(now)
    /\ \E th \in Threads : pc[th] = "sleep"

(***************************************************************************)
(* One caller using an executor through a session: connect, reconnect,     *)
(* disconnect, place_order, place_order_async, batch_place_orders,         *)
(* cancel_order and the queries, one call after the other                  *)
(* (xt_trader.py:154-852).  Each call runs to its return; the endpoint     *)
(* primitives it called are in p_log (in epLog for a batch).               *)
(***************************************************************************)
\* what the endpoint does when asked to cancel or to answer a query: it
\* answers, answers with an error code or nothing, or raises
CallOutcomes == { "ok", "err", "raises" }

\* the query methods and the endpoint primitive each one calls
\* (xt_trader.py:618, 659, 695, 729, 762, 798)
QueryPrimitive ==
    [query_asset |-> "query_stock_asset", query_order |-> "query_stock_order",
     query_orders |-> "query_stock_orders",
     query_trades |-> "query_stock_trades",
     query_positions |-> "query_stock_positions",
     query_position |-> "query_stock_position"]
Queries == DOMAIN QueryPrimitive

\* XTTraderClient.reconnect (xt_trader.py:224-240) called by one thread:
\* disconnect() when connected, then connect()
reconnect(mock, conn, ep) == connect(mock, FALSE, ep)

\* XTTraderClient.place_order_async (xt_trader.py:495-595) with the default
\* direction "buy"; order_id stands for the `seq` it returns
place_order_async(price, volume, mock, conn, epc, epo) ==
    LET cc == check_connection(mock, conn, epc)
        Failure(msg, calls) ==
            [success |-> FALSE, order_id |-> "None", message |-> msg,
             conn |-> cc.conn, calls |-> calls, attempts |-> cc.attempts]
    IN  IF ~cc.ret THEN Failure(Message("not_connected", 0), cc.calls)
        ELSE IF price <= 0 THEN Failure(Message("price_not_positive", price), cc.calls)
        ELSE IF volume < MIN_LOT_SIZE \/ volume % LOT_SIZE # 0
        THEN Failure(Message("volume_not_lots", volume), cc.calls)
        ELSE IF mock
        THEN [success |-> TRUE, order_id |-> "MOCK", conn |-> cc.conn,
              message |-> Message("mock_async_submitted", 0),
              calls |-> cc.calls, attempts |-> cc.attempts]
        ELSE IF epo = "raises"
        THEN Failure(Message("async_order_failed", 0),
                     cc.calls \o << "order_stock_async" >>)
        ELSE [success |-> TRUE, order_id |-> "XT", conn |-> cc.conn,
              message |-> Message("async_submitted", 0),
              calls |-> cc.calls \o << "order_stock_async" >>,
              attempts |-> cc.attempts]

\* XTTraderClient.cancel_order (xt_trader.py:446-493)
cancel_order(mock, conn, epc, epx) ==
    LET cc == check_connection(mock, conn, epc)
        Answer(ok, msg, calls) ==
            [success |-> ok, order_id |-> "None", message |-> msg,
             conn |-> cc.conn, calls |-> calls, attempts |-> cc.attempts]
    IN  IF ~cc.ret THEN Answer(FALSE, Message("not_connected", 0), cc.calls)
        ELSE IF mock
        THEN Answer(TRUE, Message("mock_cancel_submitted", 0), cc.calls)
        ELSE CASE epx = "ok" ->
                    Answer(TRUE, Message("cancel_submitted", 0),
                           cc.calls \o << "cancel_order_stock" >>)
               [] epx = "err" ->
                    Answer(FALSE, Message("cancel_error_code", 0),
                           cc.calls \o << "cancel_order_stock" >>)
               [] OTHER ->
                    Answer(FALSE, Message("cancel_raised", 0),
                           cc.calls \o << "cancel_order_stock" >>)

\* the query method q (xt_trader.py:597-814): success stands for a return
\* value other than None or the empty list
query(q, mock, conn, epc, epx) ==
    LET cc == check_connection(mock, conn, epc)
        Answer(ok, msg, calls) ==
            [success |-> ok, order_id |-> "None", message |-> msg,
             conn |-> cc.conn, calls |-> calls, attempts |-> cc.attempts]
    IN  IF ~cc.ret THEN Answer(FALSE, Message("not_connected", 0), cc.calls)
        ELSE IF mock
        THEN Answer(q \in { "query_asset", "query_order" },
                    Message("canned", 0), cc.calls)
        ELSE Answer(epx = "ok", Message("live", 0),
                    cc.calls \o << QueryPrimitive[q] >>)

\* the orders handed to batch_place_orders in a session: a stock code and
\* an amount (enough for some lots, or for none), and a price that is a
\* number, None or not a number
SessionOrders ==
    { o \in OrderInputs : /\ o.stock_code = Field("str", "sh.600000", 0)
                          /\ o.amount.kind = "num"
                          /\ o.price.kind # "missing" }
SessionBatches == UNION { [1..n -> SessionOrders] : n \in 0..MaxBatch }

\* the results of an earlier batch_place_orders call are dropped
BatchDropped ==
    /\ b_orders' = << >>
    /\ b_idx' = 1
    /\ b_results' = << >>
    /\ b_state' = "returned"
    /\ b_exc' = "none"
    /\ placeCalls' = {}
    /\ epLog' = << >>

\* no executor call is in progress
SessionFree == p_state = "returned" /\ b_state # "loop"

\* the caller's call of method op with arguments price and volume returns
\* r
CallReturns(op, price, volume, r) ==
    /\ p_op' = op
    /\ p_price' = price
    /\ p_volume' = volume
    /\ p_state' = "returned"
    /\ p_result' = [success |-> r.success, order_id |-> r.order_id,
                    message |-> r.message, attempts |-> r.attempts]
    /\ p_log' = r.calls
    /\ is_connected' = r.conn
    /\ session_lost' = (session_lost /\ ~(r.attempts > 0 /\ r.conn))
    /\ BatchDropped
    /\ UNCHANGED << schedVars, connVars, volumeVars, laterVars,
                    is_mock_mode >>

\* connect() or reconnect() as a result of the shape Returned takes
Connected(cr) ==
    [success |-> cr.ret, order_id |-> "None",
     message |-> Message("connection", 0), conn |-> cr.conn,
     calls |-> cr.calls, attempts |-> cr.attempts]

\* connect() is called and returns (xt_trader.py:154-195)
session_connect ==
    /\ SessionFree
    /\ \E ep \in ConnectOutcomes :
          CallReturns("connect", 0, 0,
                   Connected(connect(is_mock_mode, is_connected, ep)))

\* reconnect() is called and returns (xt_trader.py:224-240)
session_reconnect ==
    /\ SessionFree
    /\ \E ep \in ConnectOutcomes :
          CallReturns("reconnect", 0, 0,
                   Connected(reconnect(is_mock_mode, is_connected, ep)))

\* disconnect() is called and returns (xt_trader.py:835-852): it calls no
\* endpoint primitive in either mode
session_disconnect ==
    /\ SessionFree
    /\ CallReturns("disconnect", 0, 0,
                [success |-> TRUE, order_id |-> "None",
                 message |-> Message("disconnected", 0), conn |-> FALSE,
                 calls |-> << >>, attempts |-> 0])

\* place_order(stock_code, price, volume) is called and returns
session_place_order ==
    /\ SessionFree
    /\ \E price \in PlacePrices, volume \in PlaceVolumes,
          epc \in ConnectOutcomes, epo \in OrderOutcomes :
          CallReturns("place_order", price, volume,
                   place_order(price, volume, is_mock_mode, is_connected,
                               epc, epo))

\* place_order_async(stock_code, price, volume) is called and returns
session_place_order_async ==
    /\ SessionFree
    /\ \E price \in PlacePrices, volume \in PlaceVolumes,
          epc \in ConnectOutcomes, epo \in OrderOutcomes :
          CallReturns("place_order_async", price, volume,
                   place_order_async(price, volume, is_mock_mode,
                                     is_connected, epc, epo))

\* cancel_order(order_id) is called and returns
session_cancel_order ==
    /\ SessionFree
    /\ \E epc \in ConnectOutcomes, epx \in CallOutcomes :
          CallReturns("cancel_order", 0, 0,
                   cancel_order(is_mock_mode, is_connected, epc, epx))

\* one of the query methods is called and returns
session_query ==
    /\ SessionFree
    /\ \E q \in Queries, epc \in ConnectOutcomes, epx \in CallOutcomes :
          CallReturns(q, 0, 0, query(q, is_mock_mode, is_connected, epc, epx))

\* batch_place_orders(orders) is called (xt_trader.py:364-379); its loop
\* runs by batch_place_orders_iteration
session_batch_place_orders ==
    /\ SessionFree
    /\ b_orders' \in SessionBatches
    /\ b_idx' = 1
    /\ b_results' = << >>
    /\ b_state' = "loop"
    /\ b_exc' = "none"
    /\ placeCalls' = {}
    /\ epLog' = << >>
    /\ p_op' = "batch_place_orders"
    /\ p_price' = 0
    /\ p_volume' = 0
    /\ p_result' = NoResult
    /\ p_log' = << >>
    /\ UNCHANGED << schedVars, connVars, volumeVars, laterVars, is_connected,
                    is_mock_mode, p_state, session_lost >>

\* an executor as XTTraderClient.__init__ leaves it (xt_trader.py:117-152):
\* in either mode, not connected
SessionInit ==
    /\ SchedulerIdle
    /\ ConnIdle
    /\ BatchNotCalled
    /\ is_connected = FALSE
    /\ is_mock_mode \in BOOLEAN
    /\ VolumeIdle
    /\ LaterIdle
    /\ p_op = "__init__"
    /\ p_price = 0
    /\ p_volume = 0
    /\ p_state = "returned"
    /\ p_result = NoResult
    /\ p_log = << >>
    /\ session_lost = FALSE

SessionNext ==
    \/ session_connect
    \/ session_reconnect
    \/ session_disconnect
    \/ session_place_order
    \/ session_place_order_async
    \/ session_cancel_order
    \/ session_query
    \/ session_batch_place_orders
    \/ batch_place_orders_iteration
    \/ batch_place_orders_return

\* any sequence of calls on one executor
SessionSpec == SessionInit /\ [][SessionNext]_vars

(***************************************************************************)
(* Properties of mock mode.                                                *)
(***************************************************************************)
\* the placement methods
Placements == { "place_order", "place_order_async" }

\* every placement reported as successful, by the last call or in the
\* results of the last batch, carries a synthetic identifier
PlacementsSynthetic ==
    /\ (p_op \in Placements /\ p_result.success) => p_result.order_id = "MOCK"
    /\ \A i \in 1..Len(b_results) :
          b_results[i].success => b_results[i].order_id = "MOCK"

\* C39: when the executor is in mock mode, no sequence of connect,
\* reconnect, place, batch, cancel, query or disconnect calls invokes a
\* primitive of the live brokerage endpoint, and every successful placement
\* returns a synthetic result.
C39_MockNeverReachesEndpoint ==
    is_mock_mode => (p_log = << >> /\ epLog = << >> /\ PlacementsSynthetic)

\* C39 witness: in mock mode, after a connect and other calls, a
\* place_order call has returned a successful, synthetic result
C39_Witness ==
    /\ is_mock_mode
    /\ p_op = "place_order"
    /\ p_result.success
    /\ p_result.order_id = "MOCK"
    /\ p_log = << >>
====
